---- MODULE Spec2Model ----
(***************************************************************************)
(* A model of the Envict configuration store (src/src/envict.ts), its      *)
(* schema parser (src/src/schema-parser.ts), data loaders                  *)
(* (src/src/data-loaders.ts) and type converter (type-converter.ts, held   *)
(* in src/unnamed/part_004 from line 396 on).                              *)
(*                                                                         *)
(* Property paths are sequences of segments: the key 'db.host' is          *)
(* <<"db", "host">>, so joining with '.' is concatenation, split('.') is   *)
(* the sequence itself and startsWith(prefix + '.') is a proper-prefix     *)
(* test.  A JavaScript value is a record [t, s, e]: t is its typeof-like   *)
(* kind, s the canonical text of a primitive (or the identity of an        *)
(* object) and e the leaves of an object as a set of <<path, value>>.      *)
(* A Map or a plain object, whose iteration order is insertion order, is   *)
(* a sequence of <<key, value>> pairs with distinct keys.  Objects that    *)
(* may refer to one another are the object graphs of the type converter.   *)
(*                                                                         *)
(* Spec is the synchronous store, AsyncLoadSpec and AsyncWriteSpec the     *)
(* asynchronous operations, FormatsSpec the store over every format,       *)
(* SchemaSpec the schema helpers and CircularSpec string conversion of     *)
(* objects.  EnvFileSpec is the env-file formatter, ParseSpec the schema   *)
(* parser over accepted and rejected schemas, LoadWriteSpec an asyncWrite  *)
(* beside an asyncLoad, TypedSpec the store over every format with         *)
(* asynchronous loaders, and ChainFairSpec the asyncLoad chain under the   *)
(* fairness of the job queue.                                              *)
(***************************************************************************)
EXTENDS Integers, Sequences, FiniteSets, TLC

(***************************************************************************)
(* JavaScript values                                                       *)
(***************************************************************************)
Str(x) == [t |-> "string", s |-> x, e |-> {}]
Num(x) == [t |-> "number", s |-> x, e |-> {}]
Bool(x) == [t |-> "boolean", s |-> x, e |-> {}]
Null == [t |-> "null", s |-> "null", e |-> {}]
Undef == [t |-> "undefined", s |-> "undefined", e |-> {}]
\* an object with identity id and leaves e
Obj(id, e) == [t |-> "object", s |-> id, e |-> e]
\* the string JSON.stringify gives for an object with leaves e
JsonText(e) == [t |-> "string", s |-> "json", e |-> e]

\* lower-cased, trimmed text of a string
LowerTrim(x) ==
  CASE x = "TRUE" -> "true"
    [] x = " 8080" -> "8080"
    [] OTHER -> x

\* the texts Number() reads as a number (after trimming)
NumericTexts == {"3000", "8080", "1", "0"}

\* Number(text): the canonical text of the number, or "NaN"
ToNumberText(x) ==
  IF x = " 8080" THEN "8080"
  ELSE IF x \in NumericTexts THEN x
  ELSE "NaN"

\* value.trim() === ''
IsBlank(x) == x = ""

(***************************************************************************)
(* Results of operations that may throw                                    *)
(***************************************************************************)
\* an error: its class, its property field, its message, the lines an
\* aggregate's message enumerates, its value field, and for a loader's own
\* rejection the <<call, loader>> that raised it
NoError ==
  [kind |-> "none", property |-> <<>>, msg |-> "none", lines |-> <<>>,
   value |-> Undef, src |-> <<>>]
Err(kind, property, msg, value) ==
  [kind |-> kind, property |-> property, msg |-> msg, lines |-> <<>>,
   value |-> value, src |-> <<>>]
Ok(v) == [ok |-> TRUE, val |-> v, err |-> NoError]
Fail(e) == [ok |-> FALSE, val |-> Undef, err |-> e]

(***************************************************************************)
(* type-converter.ts                                                       *)
(***************************************************************************)
convertToString(value, property) ==
  CASE value.t = "string" -> Ok(value)
    [] value.t \in {"number", "boolean"} -> Ok(Str(value.s))
    [] value.t = "null" -> Fail(Err("ParseError", property, "null to string", value))
    [] value.t = "undefined" ->
         Fail(Err("ParseError", property, "undefined to string", value))
    [] OTHER -> Ok(JsonText(value.e))

convertToNumber(value, property) ==
  CASE value.t = "number" ->
         IF value.s = "NaN"
           THEN Fail(Err("ParseError", property, "NaN", value))
           ELSE Ok(value)
    [] value.t = "string" ->
         IF value.s = "json" \/ IsBlank(value.s)
              \/ ToNumberText(value.s) = "NaN"
           THEN Fail(Err("ParseError", property, "not a number", value))
           ELSE Ok(Num(ToNumberText(value.s)))
    [] value.t = "boolean" -> Ok(Num(IF value.s = "true" THEN "1" ELSE "0"))
    [] OTHER -> Fail(Err("ParseError", property, "not a number", value))

convertToBoolean(value, property) ==
  CASE value.t = "boolean" -> Ok(value)
    [] value.t = "string" ->
         IF LowerTrim(value.s) \in {"true", "1"} THEN Ok(Bool("true"))
         ELSE IF LowerTrim(value.s) \in {"false", "0"} THEN Ok(Bool("false"))
         ELSE Fail(Err("ParseError", property, "not a boolean", value))
    [] value.t = "number" ->
         IF value.s = "1" THEN Ok(Bool("true"))
         ELSE IF value.s = "0" THEN Ok(Bool("false"))
         ELSE Fail(Err("ParseError", property, "not a boolean", value))
    [] OTHER -> Fail(Err("ParseError", property, "not a boolean", value))

\* JSON.parse of a text: numbers, booleans and serialized objects parse
convertToJSON(value, property) ==
  IF value.t # "string"
    THEN Fail(Err("ParseError", property, "JSON format expects a string", value))
  ELSE IF value.s = "json" THEN Ok(Obj("parsed", value.e))
  ELSE IF IsBlank(value.s)
    THEN Fail(Err("ParseError", property, "empty string as JSON", value))
  ELSE IF value.s \in NumericTexts THEN Ok(Num(value.s))
  ELSE IF value.s \in {"true", "false"} THEN Ok(Bool(value.s))
  ELSE IF value.s = "null" THEN Ok(Null)
  ELSE Fail(Err("ParseError", property, "Invalid JSON", value))

\* the one pattern of the model's schemas, /^\d+$/
PatternTest(x) == x \in NumericTexts

validateRegex(value, property) ==
  LET str == convertToString(value, property)
  IN  IF ~str.ok THEN str
      ELSE IF str.val.s # "json" /\ PatternTest(str.val.s) THEN str
      ELSE Fail(Err("ValidationError", property, "pattern mismatch", value))

convertValue(value, format, property) ==
  IF value.t \in {"null", "undefined"} THEN Ok(value)
  ELSE CASE format = "regex" -> validateRegex(value, property)
         [] format = "string" -> convertToString(value, property)
         [] format = "number" -> convertToNumber(value, property)
         [] format = "boolean" -> convertToBoolean(value, property)
         [] format = "json" -> convertToJSON(value, property)
         [] OTHER ->
              Fail(Err("ValidationError", property, "Unsupported format", value))

(***************************************************************************)
(* type-converter.ts: objects that may hold references to one another      *)
(*                                                                         *)
(* An object graph gives each object 1..MaxObjects its members in          *)
(* Object.entries order, each <<key, target>> with target an object or 0   *)
(* for a primitive.  Object 1 is the value handed to convertValue.         *)
(***************************************************************************)
MaxObjects == 3
MemberKeys == <<"a", "b">>

\* the member lists an object may have: each key absent or present
MemberLists ==
  {<<>>} \cup {<<<<MemberKeys[i], t>>>> : i \in 1..2, t \in 0..MaxObjects}
    \cup {<<<<MemberKeys[1], t>>, <<MemberKeys[2], u>>>> :
            t \in 0..MaxObjects, u \in 0..MaxObjects}
ObjectGraphs == [1..MaxObjects -> MemberLists]

NoCycle == [found |-> FALSE, value |-> 0, path |-> <<>>]

\* detectCircularReferences: the ParseError it throws (the object it was
\* visiting and the path it had walked), or NoCycle when it returns
RECURSIVE detectCircularReferences(_, _, _, _)
RECURSIVE detectMembers(_, _, _, _)
\* the for loop over Object.entries(obj); the first throw ends it
detectMembers(graph, members, visited, path) ==
  IF members = <<>> THEN NoCycle
  ELSE LET r == detectCircularReferences(graph, Head(members)[2], visited,
                                         Append(path, Head(members)[1]))
       IN  IF r.found THEN r
           ELSE detectMembers(graph, Tail(members), visited, path)

detectCircularReferences(graph, obj, visited, path) ==
  IF obj = 0 THEN NoCycle
  ELSE IF obj \in visited
    THEN [found |-> TRUE, value |-> obj, path |-> path]
  ELSE detectMembers(graph, graph[obj], visited \cup {obj}, path)

\* convertToString of object 1 of the graph: the ParseError of the check, or
\* the JSON text
stringifyChecked(property, check) ==
  IF check.found
    THEN [ok |-> FALSE, kind |-> "ParseError", property |-> property,
          value |-> check.value, path |-> check.path]
    ELSE [ok |-> TRUE, kind |-> "none", property |-> property, value |-> 0,
          path |-> <<>>]

convertObjectToString(graph, property) ==
  stringifyChecked(property, detectCircularReferences(graph, 1, {}, <<>>))

(***************************************************************************)
(* Maps and plain objects in insertion order                               *)
(***************************************************************************)
MapKeys(m) == {m[i][1] : i \in 1..Len(m)}
MapHas(m, k) == k \in MapKeys(m)
MapIndex(m, k) == CHOOSE i \in 1..Len(m) : m[i][1] = k
\* Map.get: undefined for a missing key
MapGet(m, k) == IF MapHas(m, k) THEN m[MapIndex(m, k)][2] ELSE Undef
\* Map.set: an existing key keeps its place
MapSet(m, k, v) ==
  IF MapHas(m, k)
    THEN [m EXCEPT ![MapIndex(m, k)] = <<k, v>>]
    ELSE Append(m, <<k, v>>)
\* set every entry of `entries` in turn (for ... of Object.entries)
RECURSIVE MapSetAll(_, _)
MapSetAll(m, entries) ==
  IF entries = <<>> THEN m
  ELSE MapSetAll(MapSet(m, Head(entries)[1], Head(entries)[2]), Tail(entries))

\* path p lies strictly below prefix g: p.startsWith(g + '.')
StartsWith(p, g) == Len(p) > Len(g) /\ SubSeq(p, 1, Len(g)) = g

(***************************************************************************)
(* schema-parser.ts                                                        *)
(***************************************************************************)
\* a schema is a sequence of entries; a leaf carries a format
\* (env "" and default Undef stand for an absent attribute)
Leaf(key, format, env, default) ==
  [key |-> key, format |-> format, env |-> env, default |-> default,
   kids |-> <<>>]
Group(key, kids) ==
  [key |-> key, format |-> "none", env |-> "", default |-> Undef,
   kids |-> kids]

isSchemaProperty(value) == value.format # "none"

\* a default that is null or undefined counts as no default
dropsNull(value) == value.default \notin {Undef, Null}

\* value.default !== undefined
hasDefault(value) == value.default # Undef

\* the three maps of ParsedSchema, built in traversal order
RECURSIVE processSchemaRecursive(_, _, _)
processSchemaRecursive(schema, prefix, acc) ==
  IF schema = <<>> THEN acc
  ELSE
    LET value == Head(schema)
        propertyPath == prefix \o value.key
        next ==
          IF isSchemaProperty(value)
            THEN [properties |-> MapSet(acc.properties, propertyPath, value),
                  envMappings |->
                    IF value.env # ""
                      THEN MapSet(acc.envMappings, value.env, propertyPath)
                      ELSE acc.envMappings,
                  defaults |->
                    IF hasDefault(value)
                      THEN MapSet(acc.defaults, propertyPath, value.default)
                      ELSE acc.defaults]
            ELSE processSchemaRecursive(value.kids, propertyPath, acc)
    IN  processSchemaRecursive(Tail(schema), prefix, next)

\* the maps parseSchema returns once validateSchema has passed
parseSchema(schema) ==
  processSchemaRecursive(schema, <<>>,
    [properties |-> <<>>, envMappings |-> <<>>, defaults |-> <<>>])

\* validateSchemaProperty: the error it throws, NoError when it passes; the
\* env name " " stands for a name that is blank once trimmed
validateSchemaProperty(property, path) ==
  IF property.format \notin {"string", "number", "boolean", "json", "regex"}
    THEN Err("ValidationError", path, "Invalid format", Str(property.format))
  ELSE IF property.env = " "
    THEN Err("ValidationError", path,
             "Environment variable name must be a non-empty string",
             Str(property.env))
  ELSE NoError

\* validateSchemaRecursive: the first error met in Object.entries order
RECURSIVE validateSchemaRecursive(_, _)
validateSchemaRecursive(schema, path) ==
  IF schema = <<>> THEN NoError
  ELSE IF (IF isSchemaProperty(Head(schema))
             THEN validateSchemaProperty(Head(schema), path \o Head(schema).key)
             ELSE validateSchemaRecursive(Head(schema).kids,
                                          path \o Head(schema).key)) # NoError
    THEN (IF isSchemaProperty(Head(schema))
            THEN validateSchemaProperty(Head(schema), path \o Head(schema).key)
            ELSE validateSchemaRecursive(Head(schema).kids,
                                         path \o Head(schema).key))
  ELSE validateSchemaRecursive(Tail(schema), path)

validateSchema(schema) == validateSchemaRecursive(schema, <<>>)

(***************************************************************************)
(* data-loaders.ts                                                         *)
(***************************************************************************)
\* EnvironmentLoader.load over a map of property path -> variable name
RECURSIVE EnvironmentLoaderLoad(_, _)
EnvironmentLoaderLoad(envMappings, environment) ==
  IF envMappings = <<>> THEN <<>>
  ELSE MapSetAll(
         IF MapGet(environment, Head(envMappings)[2]) # Undef
           THEN <<<<Head(envMappings)[1],
                    MapGet(environment, Head(envMappings)[2])>>>>
           ELSE <<>>,
         EnvironmentLoaderLoad(Tail(envMappings), environment))

\* a JSON document is a sequence of members; a member holds a value or members
Member(key, val) == [key |-> key, isObject |-> FALSE, val |-> val, kids |-> <<>>]
ObjectMember(key, kids) ==
  [key |-> key, isObject |-> TRUE, val |-> Undef, kids |-> kids]

\* FileLoader.flattenObject: nested members to dot-joined keys
RECURSIVE flattenObject(_, _)
flattenObject(obj, prefix) ==
  IF obj = <<>> THEN <<>>
  ELSE MapSetAll(IF Head(obj).isObject
                   THEN flattenObject(Head(obj).kids, prefix \o Head(obj).key)
                   ELSE <<<<prefix \o Head(obj).key, Head(obj).val>>>>,
                 flattenObject(Tail(obj), prefix))

(***************************************************************************)
(* Nested objects as leaf sets                                             *)
(***************************************************************************)
EmptyObject == Obj("obj", {})

\* the leaves a value contributes when it is stored at `path` of an object
Inline(path, value) ==
  IF value.t = "object" /\ value.e # {}
    THEN {<<path \o l[1], l[2]>> : l \in value.e}
    ELSE {<<path, IF value.t = "object" THEN EmptyObject ELSE value>>}

\* envict.ts setNestedValue: a non-object met on the way is replaced by {},
\* and whatever sits at `path` is replaced by the value
setNestedValue(obj, path, value) ==
  {l \in obj : /\ ~StartsWith(path, l[1])
               /\ l[1] # path
               /\ ~StartsWith(l[1], path)}
    \cup Inline(path, value)

\* obj[p1][p2]...: the value at `path`, Undef when there is none
Navigate(obj, path) ==
  IF \E l \in obj : l[1] = path
    THEN (CHOOSE l \in obj : l[1] = path)[2]
  ELSE IF \E l \in obj : StartsWith(l[1], path)
    THEN Obj("obj", {<<SubSeq(l[1], Len(path) + 1, Len(l[1])), l[2]>> :
                       l \in {x \in obj : StartsWith(x[1], path)}})
  ELSE Undef

\* `part in result` holds at every step of the walk along `path`
CanNavigate(obj, path) ==
  \E l \in obj : l[1] = path \/ StartsWith(l[1], path)

\* two values are equal as toEqual sees them (object identity ignored)
SameValue(x, y) ==
  /\ x.t = y.t
  /\ IF x.t = "object" THEN x.e = y.e ELSE x.s = y.s /\ x.e = y.e

(***************************************************************************)
(* schema-parser.ts: the introspection helpers                             *)
(***************************************************************************)
\* getPropertyPaths: the paths of the leaves in traversal order
RECURSIVE getPropertyPathsRecursive(_, _, _)
getPropertyPathsRecursive(schema, prefix, paths) ==
  IF schema = <<>> THEN paths
  ELSE getPropertyPathsRecursive(Tail(schema), prefix,
         IF isSchemaProperty(Head(schema))
           THEN Append(paths, prefix \o Head(schema).key)
           ELSE getPropertyPathsRecursive(Head(schema).kids,
                                          prefix \o Head(schema).key, paths))

getPropertyPaths(schema) == getPropertyPathsRecursive(schema, <<>>, <<>>)

\* what the walk of hasProperty and getProperty stands on: a schema level, a
\* leaf definition, a value held by a leaf's attribute, or nothing (the walk
\* has returned)
SchemaNode(entries) == [kind |-> "schema", entries |-> entries]
LeafNode(leaf) == [kind |-> "leaf", leaf |-> leaf]
ValueNode(val) == [kind |-> "value", val |-> val]
Missing == [kind |-> "missing"]

\* the attributes a leaf definition holds
LeafAttribute(leaf, part) ==
  CASE part = "format" /\ leaf.format = "regex" -> Obj("RegExp", {})
    [] part = "format" -> Str(leaf.format)
    [] part = "env" /\ leaf.env # "" -> Str(leaf.env)
    [] part = "default" -> leaf.default
    [] OTHER -> Undef

\* current[part] of the walk: `part in current` fails, or the member is
\* undefined, or the walk moves to the member
schemaMember(current, part) ==
  CASE current.kind = "schema" ->
         IF \E i \in 1..Len(current.entries) :
              current.entries[i].key = <<part>>
           THEN LET entry == current.entries[
                               CHOOSE i \in 1..Len(current.entries) :
                                 current.entries[i].key = <<part>>]
                IN  IF isSchemaProperty(entry) THEN LeafNode(entry)
                    ELSE SchemaNode(entry.kids)
           ELSE Missing
    [] current.kind = "leaf" ->
         IF LeafAttribute(current.leaf, part) = Undef THEN Missing
         ELSE ValueNode(LeafAttribute(current.leaf, part))
    [] current.kind = "value" ->
         IF current.val.t = "object" /\ CanNavigate(current.val.e, <<part>>)
           THEN ValueNode(Navigate(current.val.e, <<part>>))
           ELSE Missing
    [] OTHER -> Missing

\* the for loop of hasProperty and getProperty over the parts of the path
RECURSIVE walkSchema(_, _)
walkSchema(current, parts) ==
  IF parts = <<>> \/ current.kind = "missing" THEN current
  ELSE walkSchema(schemaMember(current, Head(parts)), Tail(parts))

\* isSchemaProperty of what the walk ended on
endsOnProperty(current) ==
  \/ current.kind = "leaf"
  \/ /\ current.kind = "value" /\ current.val.t = "object"
     /\ CanNavigate(current.val.e, <<"format">>)

hasProperty(schema, path) ==
  endsOnProperty(walkSchema(SchemaNode(schema), path))

\* getProperty: <<the definition>>, or <<>> for undefined
foundProperty(current) ==
  IF ~endsOnProperty(current) THEN <<>>
  ELSE IF current.kind = "leaf" THEN <<current.leaf>>
  ELSE <<current.val>>

getProperty(schema, path) == foundProperty(walkSchema(SchemaNode(schema), path))

(***************************************************************************)
(* The file system read by FileLoader                                      *)
(***************************************************************************)
\* { "db": { "host": "abc", "port": "1" }, "a": "3000", "extra": true }
ValidDoc ==
  <<ObjectMember(<<"db">>,
      <<Member(<<"host">>, Str("abc")), Member(<<"port">>, Str("1"))>>),
    Member(<<"a">>, Str("3000")),
    Member(<<"extra">>, Bool("true"))>>
\* { "db.port": "abc", "a": "abc", "b": 1 }
BadDoc ==
  <<Member(<<"db", "port">>, Str("abc")), Member(<<"a">>, Str("abc")),
    Member(<<"b">>, Num("1"))>>

\* { }
EmptyDoc == <<>>
\* { "name": "abc", "server": { "port": "8080" }, "meta": "{\"k\":1}",
\*   "flag": 1 }
FormatsDoc ==
  <<Member(<<"name">>, Str("abc")),
    ObjectMember(<<"server">>, <<Member(<<"port">>, Str("8080"))>>),
    Member(<<"meta">>, JsonText({<<<<"k">>, Num("1")>>})),
    Member(<<"flag">>, Num("1"))>>

FilePaths == {"valid.json", "bad.json", "broken.json", "missing.json"}

\* readFileSync + JSON.parse of each path
FileContent(filePath) ==
  CASE filePath = "valid.json" -> [kind |-> "json", doc |-> ValidDoc]
    [] filePath = "bad.json" -> [kind |-> "json", doc |-> BadDoc]
    [] filePath = "broken.json" -> [kind |-> "unparsable", doc |-> <<>>]
    [] filePath = "empty.json" -> [kind |-> "json", doc |-> EmptyDoc]
    [] filePath = "formats.json" -> [kind |-> "json", doc |-> FormatsDoc]
    [] OTHER -> [kind |-> "unreadable", doc |-> <<>>]

\* FileLoader.load: the flattened data, or a FileError
FileLoaderLoad(filePath) ==
  IF FileContent(filePath).kind = "json"
    THEN [ok |-> TRUE, data |-> flattenObject(FileContent(filePath).doc, <<>>),
          err |-> NoError]
    ELSE [ok |-> FALSE, data |-> <<>>,
          err |-> Err("FileError", <<filePath>>, FileContent(filePath).kind, Undef)]

(***************************************************************************)
(* envict.ts: the configuration store                                      *)
(***************************************************************************)
applyDefaults(config, parsedSchema) == MapSetAll(config, parsedSchema.defaults)

\* a merge in which a key already in the store keeps its value
RECURSIVE mergeKeepingFirst(_, _)
mergeKeepingFirst(config, data) ==
  IF data = <<>> THEN config
  ELSE mergeKeepingFirst(
         IF MapHas(config, Head(data)[1]) THEN config
         ELSE Append(config, Head(data)),
         Tail(data))

\* the merge loop of loadFromFile, load and asyncLoad
mergeData(config, data) == MapSetAll(config, data)

\* envMappings (variable -> path) inverted to path -> variable
invertedMappings(parsedSchema) ==
  LET RECURSIVE walk(_, _)
      walk(ms, out) ==
        IF ms = <<>> THEN out
        ELSE walk(Tail(ms), MapSet(out, Head(ms)[2], Head(ms)[1]))
  IN  walk(parsedSchema.envMappings, <<>>)

loadFromEnvironment(config, parsedSchema, environment) ==
  mergeData(config,
    EnvironmentLoaderLoad(invertedMappings(parsedSchema), environment))

\* what the pass does with the outcome of convertValue: the converted value
\* is stored, or the error is recorded
convertedOrError(c) ==
  IF c.ok THEN [set |-> TRUE, val |-> c.val, err |-> NoError]
  ELSE [set |-> FALSE, val |-> Undef, err |-> c.err]

\* a pass that skips every absent value, declared default or not
skipsAbsent(rawValue, propertyPath, schemaProperty) ==
  IF rawValue = Undef THEN [set |-> FALSE, val |-> Undef, err |-> NoError]
  ELSE convertedOrError(
         convertValue(rawValue, schemaProperty.format, propertyPath))

\* one property of the validate-and-convert pass: the value kept for the
\* property and the error recorded for it, if any
validateProperty(rawValue, propertyPath, schemaProperty) ==
  IF rawValue = Undef /\ schemaProperty.default = Undef
    THEN [set |-> FALSE, val |-> Undef,
          err |-> Err("ValidationError", propertyPath, "Required property", Undef)]
  ELSE IF rawValue = Undef
    THEN [set |-> FALSE, val |-> Undef, err |-> NoError]
  ELSE IF /\ schemaProperty.format = "json"
          /\ schemaProperty.default # Undef
          /\ rawValue = schemaProperty.default
          /\ rawValue.t \in {"object", "null"}
    THEN [set |-> TRUE, val |-> rawValue, err |-> NoError]
  ELSE convertedOrError(
         convertValue(rawValue, schemaProperty.format, propertyPath))

\* the pass over every schema property: the store it leaves and the errors
RECURSIVE validateLoop(_, _, _)
\* the rest of the pass once the first of `properties` gave outcome r
validateRest(config, properties, errors, r) ==
  validateLoop(
    IF r.set THEN MapSet(config, Head(properties)[1], r.val) ELSE config,
    Tail(properties),
    IF r.err # NoError THEN Append(errors, r.err) ELSE errors)

validateLoop(config, properties, errors) ==
  IF properties = <<>> THEN [config |-> config, errors |-> errors]
  ELSE validateRest(config, properties, errors,
         validateProperty(MapGet(config, Head(properties)[1]),
                          Head(properties)[1], Head(properties)[2]))

\* a pass that throws the first error it recorded, whatever their number
throwsFirstError(errors) == errors[1]

\* what the pass throws: the single error itself, or one aggregate
thrownError(errors) ==
  IF Len(errors) = 1 THEN errors[1]
  ELSE [Err("ValidationError", <<"configuration">>,
            "Configuration validation failed", errors)
          EXCEPT !.lines = [i \in 1..Len(errors) |->
                              <<errors[i].property, errors[i].msg>>]]

\* the end of the pass: it returns, or throws when errors were collected
passResult(r) ==
  [config |-> r.config, ok |-> r.errors = <<>>, errors |-> r.errors,
   err |-> IF r.errors = <<>> THEN NoError ELSE thrownError(r.errors)]

validateAndConvertConfiguration(config, parsedSchema) ==
  passResult(validateLoop(config, parsedSchema.properties, <<>>))

(***************************************************************************)
(* envict.ts: reads                                                        *)
(***************************************************************************)
\* the loop of buildNestedObject over the store's entries, in Map order
RECURSIVE collectNested(_, _, _)
collectNested(entries, parentKey, nestedData) ==
  IF entries = <<>> THEN nestedData
  ELSE LET configKey == Head(entries)[1]
       IN  collectNested(Tail(entries), parentKey,
             IF StartsWith(configKey, parentKey)
               THEN setNestedValue(nestedData,
                      SubSeq(configKey, Len(parentKey) + 1, Len(configKey)),
                      Head(entries)[2])
               ELSE nestedData)

hasNestedProperties(config, parentKey) ==
  \E k \in MapKeys(config) : StartsWith(k, parentKey)

\* the view built from the store is cached and returned
cacheAndReturn(cache, parentKey, nestedObject) ==
  [found |-> TRUE, val |-> nestedObject,
   cache |-> MapSet(cache, parentKey, nestedObject)]

\* buildNestedObject: the cached view if there is one, else a view built from
\* the store and cached; found is FALSE for the null result
buildNestedObject(config, cache, parentKey) ==
  IF MapHas(cache, parentKey)
    THEN [found |-> TRUE, val |-> MapGet(cache, parentKey), cache |-> cache]
  ELSE IF ~hasNestedProperties(config, parentKey)
    THEN [found |-> FALSE, val |-> Null, cache |-> cache]
  ELSE cacheAndReturn(cache, parentKey,
                      Obj("view", collectNested(config, parentKey, {})))

\* the object getNestedValue builds from the stored sub-paths of `path`
RECURSIVE collectSubPaths(_, _, _, _)
collectSubPaths(config, parts, i, current) ==
  IF i > Len(parts) THEN current
  ELSE LET subPath == SubSeq(parts, 1, i)
           value == MapGet(config, subPath)
       IN  collectSubPaths(config, parts, i + 1,
             IF value # Undef THEN setNestedValue(current, subPath, value)
             ELSE current)

\* the walk of getNestedValue along `path` through the object it built
navigateBuilt(current, path) ==
  IF ~CanNavigate(current, path)
    THEN Fail(Err("ValidationError", path,
                  "is not defined in the configuration", Undef))
  ELSE Ok(Navigate(current, path))

getNestedValue(config, path) ==
  IF MapGet(config, path) # Undef THEN Ok(MapGet(config, path))
  ELSE IF ~\E i \in 1..Len(path) : MapGet(config, SubSeq(path, 1, i)) # Undef
    THEN Fail(Err("ValidationError", path,
                  "is not defined in the configuration", Undef))
  ELSE navigateBuilt(collectSubPaths(config, path, 1, {}), path)

handlePropertyNotFound(parsedSchema, key) ==
  IF MapHas(parsedSchema.properties, key)
    THEN Fail(Err("ValidationError", key, "is not set and has no default value",
             Undef))
    ELSE Fail(Err("ValidationError", key, "is not defined in the schema", Undef))

\* getSingleValue after the direct lookup missed: the nested view if
\* buildNestedObject found one, else the dotted-path walk or the error
nestedOrNotFound(config, cache, parsedSchema, key, nested) ==
  IF nested.found THEN [res |-> Ok(nested.val), cache |-> nested.cache]
  ELSE IF Len(key) > 1
    THEN [res |-> getNestedValue(config, key), cache |-> cache]
  ELSE [res |-> handlePropertyNotFound(parsedSchema, key), cache |-> cache]

\* getSingleValue: what get(key) returns or throws, and the cache it leaves
getSingleValue(config, cache, parsedSchema, key) ==
  IF MapGet(config, key) # Undef
    THEN [res |-> Ok(MapGet(config, key)), cache |-> cache]
  ELSE nestedOrNotFound(config, cache, parsedSchema, key,
                        buildNestedObject(config, cache, key))

\* tryGet when both keys failed: one ValidationError whose message holds both
\* keys and both messages
bothFailed(primaryKey, fallbackKey, error, fallbackError) ==
  [Err("ValidationError", primaryKey, "Both primary key and fallback key failed",
       Undef)
     EXCEPT !.lines =
       <<<<primaryKey, error.msg>>,
         <<fallbackKey, IF fallbackError.kind = "ValidationError"
                          THEN fallbackError.msg ELSE "Unknown error">>>>]

\* a catch block that rethrows the primary key's error
throwsPrimary(primaryKey, fallbackKey, error, fallback) ==
  [res |-> Fail(error), cache |-> fallback.cache]

\* the catch block of tryGet once get(fallbackKey) was tried
tryFallback(primaryKey, fallbackKey, error, fallback) ==
  IF fallback.res.ok THEN fallback
  ELSE [res |-> Fail(bothFailed(primaryKey, fallbackKey, error,
                                fallback.res.err)),
        cache |-> fallback.cache]

\* tryGet once get(primaryKey) was tried
afterPrimary(config, parsedSchema, primaryKey, fallbackKey, primary) ==
  IF primary.res.ok THEN primary
  ELSE IF primary.res.err.kind = "ValidationError"
    THEN tryFallback(primaryKey, fallbackKey, primary.res.err,
           getSingleValue(config, primary.cache, parsedSchema, fallbackKey))
  ELSE primary

\* tryGet: what it returns or throws, and the cache it leaves
tryGet(config, cache, parsedSchema, primaryKey, fallbackKey) ==
  afterPrimary(config, parsedSchema, primaryKey, fallbackKey,
               getSingleValue(config, cache, parsedSchema, primaryKey))

\* a getMultipleValues that returns what it collected, errors or not
returnsPartial(keys, result, errors, cache) ==
  [ok |-> TRUE, entries |-> result, err |-> NoError, cache |-> cache]

\* the end of getMultipleValues: the result object, or one ValidationError
\* that holds every message and carries the list of keys
manyOutcome(keys, result, errors, cache) ==
  IF Len(errors) > 0
    THEN [ok |-> FALSE, entries |-> <<>>,
          err |-> [Err("ValidationError", <<"multiple_properties">>,
                       "Failed to retrieve multiple properties", keys)
                     EXCEPT !.lines = [i \in 1..Len(errors) |->
                                         <<errors[i].property,
                                           errors[i].msg>>]],
          cache |-> cache]
    ELSE [ok |-> TRUE, entries |-> result, err |-> NoError, cache |-> cache]

\* the loop of getMultipleValues from key i on
RECURSIVE getMany(_, _, _, _, _, _, _)
\* the rest of the loop once get(keys[i]) gave `got`
gotOne(config, parsedSchema, keys, i, result, errors, got) ==
  getMany(config, parsedSchema, keys, i + 1,
          IF got.res.ok THEN MapSet(result, keys[i], got.res.val) ELSE result,
          IF got.res.ok THEN errors ELSE Append(errors, got.res.err),
          got.cache)

getMany(config, parsedSchema, keys, i, result, errors, cache) ==
  IF i > Len(keys) THEN manyOutcome(keys, result, errors, cache)
  ELSE gotOne(config, parsedSchema, keys, i, result, errors,
              getSingleValue(config, cache, parsedSchema, keys[i]))

getMultipleValues(config, cache, parsedSchema, keys) ==
  getMany(config, parsedSchema, keys, 1, <<>>, <<>>, cache)

(***************************************************************************)
(* envict.ts: the env-file format of asyncWrite                            *)
(*                                                                         *)
(* Here a string is the sequence of its characters, and the data to format *)
(* is a sequence of members as Object.entries lists them.                  *)
(***************************************************************************)
\* the characters used, in the order of their UTF-16 code units, which is the
\* order Array.prototype.sort compares strings by
CodeUnits ==
  <<"\t", " ", "\"", "'", ".", "1", "=", "A", "B", "X", "Y", "\\", "_", "a",
    "b", "x", "y">>
CodeUnit(c) == CHOOSE i \in 1..Len(CodeUnits) : CodeUnits[i] = c

\* a < b as Array.prototype.sort compares two strings
RECURSIVE sortsBefore(_, _)
sortsBefore(a, b) ==
  IF b = <<>> THEN FALSE
  ELSE IF a = <<>> THEN TRUE
  ELSE IF Head(a) = Head(b) THEN sortsBefore(Tail(a), Tail(b))
  ELSE CodeUnit(Head(a)) < CodeUnit(Head(b))

\* String.prototype.toUpperCase
toUpperCase(text) ==
  [i \in 1..Len(text) |->
     CASE text[i] = "a" -> "A"
       [] text[i] = "b" -> "B"
       [] text[i] = "x" -> "X"
       [] text[i] = "y" -> "Y"
       [] OTHER -> text[i]]

\* replace(/\./g, '_')
dotsToUnderscores(text) ==
  [i \in 1..Len(text) |-> IF text[i] = "." THEN "_" ELSE text[i]]

\* replace(/"/g, '\\"')
RECURSIVE escapeQuotes(_)
escapeQuotes(text) ==
  IF text = <<>> THEN <<>>
  ELSE (IF Head(text) = "\"" THEN <<"\\", "\"">> ELSE <<Head(text)>>)
         \o escapeQuotes(Tail(text))

includes(text, c) == \E i \in 1..Len(text) : text[i] = c

\* formatEnvValue
formatEnvValue(value) ==
  IF value = Null \/ value = Undef THEN <<>>
  ELSE IF value.t = "string"
    THEN IF includes(value.s, " ") \/ includes(value.s, "\"")
              \/ includes(value.s, "'")
           THEN <<"\"">> \o escapeQuotes(value.s) \o <<"\"">>
           ELSE value.s
  ELSE value.s

\* a line of the file: the variable name and the formatted value
EnvLine(envVarName, envValue) == [name |-> envVarName, value |-> envValue]
\* `${envVarName}=${envValue}`
lineText(line) == line.name \o <<"=">> \o line.value

\* the inner flattenObject of formatAsEnvFile: envLines after obj is walked
RECURSIVE flattenToLines(_, _, _)
flattenToLines(obj, prefix, envLines) ==
  IF obj = <<>> THEN envLines
  ELSE flattenToLines(
         Tail(obj), prefix,
         IF Head(obj).isObject
           THEN flattenToLines(
                  Head(obj).kids,
                  IF prefix = <<>> THEN Head(obj).key
                  ELSE prefix \o <<".">> \o Head(obj).key,
                  envLines)
           ELSE Append(
                  envLines,
                  EnvLine(dotsToUnderscores(toUpperCase(
                            IF prefix = <<>> THEN Head(obj).key
                            ELSE prefix \o <<".">> \o Head(obj).key)),
                          formatEnvValue(Head(obj).val))))

\* envLines.sort(): a stable sort of the lines by their text
RECURSIVE insertLine(_, _)
insertLine(sorted, line) ==
  IF sorted = <<>> THEN <<line>>
  ELSE IF sortsBefore(lineText(line), lineText(Head(sorted)))
    THEN <<line>> \o sorted
  ELSE <<Head(sorted)>> \o insertLine(Tail(sorted), line)

RECURSIVE sortLines(_)
sortLines(envLines) ==
  IF envLines = <<>> THEN <<>>
  ELSE insertLine(sortLines(SubSeq(envLines, 1, Len(envLines) - 1)),
                  envLines[Len(envLines)])

\* formatAsEnvFile: the lines of the file, which join('\n') puts together
formatAsEnvFile(data) == sortLines(flattenToLines(data, <<>>, <<>>))

(***************************************************************************)
(* Inputs: schemas, environments, loader results                           *)
(***************************************************************************)
\* { db: { host: {string, env DB_HOST, default 'localhost'},
\*         port: {number, env DB_PORT, default 3000} } }
SchemaDb ==
  <<Group(<<"db">>,
      <<Leaf(<<"host">>, "string", "DB_HOST", Str("localhost")),
        Leaf(<<"port">>, "number", "DB_PORT", Num("3000"))>>)>>
\* { a: {number, env X, default 1}, b: {number, env X, default 0} }
SchemaDup ==
  <<Leaf(<<"a">>, "number", "X", Num("1")),
    Leaf(<<"b">>, "number", "X", Num("0"))>>

\* the {schema, env} options an instance is constructed with
Scenarios ==
  { <<SchemaDb, <<>>>>,
    <<SchemaDb, <<<<"DB_PORT", Str(" 8080")>>>>>>,
    <<SchemaDup, <<<<"X", Str("8080")>>>>>> }

\* a flat schema whose keys hold dots:
\* { 'database.host': {string, default 'localhost'},
\*   'database.port': {number, default 3000} }
SchemaDotted ==
  <<Leaf(<<"database", "host">>, "string", "", Str("localhost")),
    Leaf(<<"database", "port">>, "number", "", Num("3000"))>>

\* a schema with a leaf of every format; name and server.port are required:
\* { name: {string, env NAME}, server: { port: {number, env PORT} },
\*   flag: {boolean, env FLAG, default false},
\*   meta: {json, env META, default {k: 0}},
\*   code: {/^\d+$/, env CODE, default '1'} }
SchemaFormats ==
  <<Leaf(<<"name">>, "string", "NAME", Undef),
    Group(<<"server">>, <<Leaf(<<"port">>, "number", "PORT", Undef)>>),
    Leaf(<<"flag">>, "boolean", "FLAG", Bool("false")),
    Leaf(<<"meta">>, "json", "META", Obj("default", {<<<<"k">>, Num("0")>>})),
    Leaf(<<"code">>, "regex", "CODE", Str("1"))>>

\* the env options SchemaFormats is constructed with
FormatEnvs ==
  { <<>>,
    <<<<"NAME", Str("abc")>>>>,
    <<<<"NAME", Str("abc")>>, <<"PORT", Str("abc")>>>>,
    <<<<"NAME", Str("abc")>>, <<"PORT", Str("1")>>>>,
    <<<<"PORT", Str("abc")>>, <<"CODE", Str("abc")>>>>,
    <<<<"NAME", Str("abc")>>, <<"PORT", Str("1")>>, <<"CODE", Str("abc")>>>>,
    <<<<"NAME", Str("abc")>>, <<"PORT", Str(" 8080")>>,
      <<"FLAG", Str("TRUE")>>,
      <<"META", JsonText({<<<<"k">>, Num("1")>>})>>,
      <<"CODE", Str("3000")>>>> }

\* the leaves a schema handed to parseSchema is made of: with and without an
\* env name, with no default, a null default and a string default, and with
\* a format or an env name that validateSchema rejects
ParsedFormats == {"string", "number", "date"}
ParsedEnvs == {"", "X", "Y", " "}
ParsedDefaults == {Undef, Null, Str("1")}
\* { a: leaf, g: { c: leaf } }
ParsedSamples ==
  {<<Leaf(<<"a">>, f, e, d), Group(<<"g">>, <<Leaf(<<"c">>, g, h, k)>>)>> :
     <<f, e, d, g, h, k>> \in
       ParsedFormats \X ParsedEnvs \X ParsedDefaults
         \X ParsedFormats \X ParsedEnvs \X ParsedDefaults}

\* the schemas and paths the introspection helpers are asked about
SchemaSamples == {SchemaDb, SchemaDup, SchemaDotted, SchemaFormats}
SchemaPaths ==
  {<<"db">>, <<"db", "host">>, <<"db", "port">>, <<"db", "host", "format">>,
   <<"a">>, <<"b">>, <<"a", "env">>, <<"name">>, <<"server">>,
   <<"server", "port">>, <<"meta">>, <<"meta", "default">>,
   <<"meta", "default", "k">>, <<"code">>, <<"code", "format">>,
   <<"database">>, <<"database", "host">>, <<"database", "port">>,
   <<"nope">>}

\* the files and keys used with SchemaFormats
FormatFiles == {"empty.json", "formats.json", "missing.json"}
FormatKeys == {<<"name">>, <<"server">>, <<"server", "port">>, <<"flag">>,
               <<"meta">>, <<"code">>}

\* what an AsyncLoader's load() may resolve with:
\* { 'db.port': ' 8080', 'db.host': 0, a: '1' }
\* { 'db.port': 1, db: { host: 'abc' }, a: 0 }
\* { 'db.port': 'abc', a: 'abc' }
LoaderData ==
  { <<<<<<"db", "port">>, Str(" 8080")>>, <<<<"db", "host">>, Num("0")>>,
      <<<<"a">>, Str("1")>>>>,
    <<<<<<"db", "port">>, Num("1")>>,
      <<<<"db">>, Obj("loaded", {<<<<"host">>, Str("abc")>>})>>,
      <<<<"a">>, Num("0")>>>>,
    <<<<<<"db", "port">>, Str("abc")>>, <<<<"a">>, Str("abc")>>>> }

\* what a loader may resolve with for SchemaFormats:
\* { flag: undefined }
\* { 'server.port': ' 8080', code: 3000, flag: 'TRUE' }
\* { name: 0, meta: null }
\* { code: 'abc' }
FormatLoaderData ==
  { <<<<<<"flag">>, Undef>>>>,
    <<<<<<"server", "port">>, Str(" 8080")>>, <<<<"code">>, Num("3000")>>,
      <<<<"flag">>, Str("TRUE")>>>>,
    <<<<<<"name">>, Num("0")>>, <<<<"meta">>, Null>>>>,
    <<<<<<"code">>, Str("abc")>>>> }

\* the keys get() is asked for
QueryKeys == {<<"db">>, <<"db", "host">>, <<"db", "port">>, <<"a">>, <<"b">>,
              <<"extra">>, <<"nope">>}

\* the key lists get(keys) is asked for: up to MaxKeys of the QueryKeys
MaxKeys == 2

KeyLists == UNION {[1..n -> QueryKeys] : n \in 0..MaxKeys}

\* data handed to formatAsEnvFile: keys, one a prefix of another, and values
\* with and without spaces, tabs and quotes
EnvKeys == {<<"a">>, <<"a", "1">>, <<"b">>}
EnvValues ==
  {Str(<<"x">>), Str(<<"x", " ", "y">>), Str(<<"x", "\t", "y">>),
   Str(<<"x", "\"", "y">>), Str(<<"x", "'", "y">>), Num(<<"1">>), Null, Undef}
EnvMembers ==
  {Member(k, v) : k \in EnvKeys, v \in EnvValues}
    \cup {ObjectMember(k, <<Member(<<"b">>, v)>>) :
            k \in EnvKeys, v \in EnvValues}
MaxMembers == 2
EnvData ==
  {d \in UNION {[1..n -> EnvMembers] : n \in 0..MaxMembers} :
     \A i \in 1..Len(d), j \in 1..Len(d) : d[i].key = d[j].key => i = j}

MaxCalls == 2
MaxLoaders == 2

\* join(path, fileName) of the asyncWrite calls, and their select option
\* (<<>> when the option is absent)
WritePaths == {"out/a.json", "out/b.json"}
Selects == {<<>>, <<"db">>, <<"nope">>}
MaxWrites == 3
MaxJoint == 1

(***************************************************************************)
(* State                                                                   *)
(***************************************************************************)
VARIABLES
  schema,             \* this.schema
  env,                \* this.env
  phase,              \* "new", "ready" (constructed) or "failed" (threw)
  config,             \* this.config: Map of flat key -> value
  nestedObjectCache,  \* this.nestedObjectCache
  calls,              \* the asyncLoad calls issued so far
  asyncLoadMutex,     \* this.asyncLoadMutex: the call whose promise it holds
  supplied,           \* history: what the running call's loaders supplied
  disturbed,          \* history: a load() merged while that call was running
  before,             \* history: the store when that call's body started
  clean,              \* history: no load() or asyncLoad() has failed so far
  writes,             \* the asyncWrite calls issued so far
  asyncWriteMutex,    \* this.asyncWriteMutex: Map of file path -> write
  files,              \* the file system: Map of file path -> content
  last,               \* the step taken last and its outcome
  returned            \* the helper function called last and what it returned

vars == <<schema, env, phase, config, nestedObjectCache, calls, asyncLoadMutex,
          supplied, disturbed, before, clean, writes, asyncWriteMutex, files,
          last, returned>>

loadVars == <<calls, asyncLoadMutex, supplied, disturbed, before>>
writeVars == <<writes, asyncWriteMutex, files>>
\* the state a helper function does not touch
storeVars == <<schema, env, phase, config, nestedObjectCache, loadVars, clean,
               writeVars, last>>

parsedSchema == parseSchema(schema)

\* no helper function has been called
NoCall == [op |-> "none", arg |-> <<>>, out |-> <<>>]

Outcome(op, ok, err, file, call) ==
  [op |-> op, ok |-> ok, err |-> err, file |-> file, call |-> call]

Init ==
  /\ \E scenario \in Scenarios : schema = scenario[1] /\ env = scenario[2]
  /\ phase = "new"
  /\ config = <<>>
  /\ nestedObjectCache = <<>>
  /\ calls = <<>>
  /\ asyncLoadMutex = 0
  /\ supplied = <<>>
  /\ disturbed = FALSE
  /\ before = <<>>
  /\ clean = TRUE
  /\ writes = <<>>
  /\ asyncWriteMutex = <<>>
  /\ files = <<>>
  /\ last = Outcome("none", TRUE, NoError, "", 0)
  /\ returned = NoCall

\* an instance about to be constructed over SchemaFormats
FormatsInit ==
  /\ schema = SchemaFormats
  /\ env \in FormatEnvs
  /\ phase = "new"
  /\ config = <<>>
  /\ nestedObjectCache = <<>>
  /\ calls = <<>>
  /\ asyncLoadMutex = 0
  /\ supplied = <<>>
  /\ disturbed = FALSE
  /\ before = <<>>
  /\ clean = TRUE
  /\ writes = <<>>
  /\ asyncWriteMutex = <<>>
  /\ files = <<>>
  /\ last = Outcome("none", TRUE, NoError, "", 0)
  /\ returned = NoCall

\* a schema handed to the helpers of schema-parser.ts
SchemaInit ==
  /\ schema \in SchemaSamples
  /\ env = <<>>
  /\ phase = "new"
  /\ config = <<>>
  /\ nestedObjectCache = <<>>
  /\ calls = <<>>
  /\ asyncLoadMutex = 0
  /\ supplied = <<>>
  /\ disturbed = FALSE
  /\ before = <<>>
  /\ clean = TRUE
  /\ writes = <<>>
  /\ asyncWriteMutex = <<>>
  /\ files = <<>>
  /\ last = Outcome("none", TRUE, NoError, "", 0)
  /\ returned = NoCall

\* a schema about to be handed to parseSchema
ParseInit ==
  /\ schema \in ParsedSamples
  /\ env = <<>>
  /\ phase = "new"
  /\ config = <<>>
  /\ nestedObjectCache = <<>>
  /\ calls = <<>>
  /\ asyncLoadMutex = 0
  /\ supplied = <<>>
  /\ disturbed = FALSE
  /\ before = <<>>
  /\ clean = TRUE
  /\ writes = <<>>
  /\ asyncWriteMutex = <<>>
  /\ files = <<>>
  /\ last = Outcome("none", TRUE, NoError, "", 0)
  /\ returned = NoCall

\* parseSchema(schema): validateSchema, then the three maps
ParseSchema ==
  /\ returned.op = "none"
  /\ returned' =
       [op |-> "parseSchema", arg |-> <<>>,
        out |-> IF validateSchema(schema) = NoError
                  THEN [ok |-> TRUE, parsed |-> parseSchema(schema),
                        err |-> NoError]
                  ELSE [ok |-> FALSE, parsed |-> parseSchema(<<>>),
                        err |-> validateSchema(schema)]]
  /\ UNCHANGED storeVars

\* hasProperty(schema, path)
HasProperty(path) ==
  /\ returned' = [op |-> "hasProperty", arg |-> path,
                  out |-> hasProperty(schema, path)]
  /\ UNCHANGED storeVars

\* getProperty(schema, path)
GetProperty(path) ==
  /\ returned' = [op |-> "getProperty", arg |-> path,
                  out |-> getProperty(schema, path)]
  /\ UNCHANGED storeVars

\* getPropertyPaths(schema)
GetPropertyPaths ==
  /\ returned' = [op |-> "getPropertyPaths", arg |-> <<>>,
                  out |-> getPropertyPaths(schema)]
  /\ UNCHANGED storeVars

\* an object graph about to be handed to convertValue(x, 'string', 'test')
CircularInit ==
  /\ \E graph \in ObjectGraphs :
       returned = [op |-> "input", arg |-> graph, out |-> <<>>]
  /\ schema = <<>>
  /\ env = <<>>
  /\ phase = "new"
  /\ config = <<>>
  /\ nestedObjectCache = <<>>
  /\ calls = <<>>
  /\ asyncLoadMutex = 0
  /\ supplied = <<>>
  /\ disturbed = FALSE
  /\ before = <<>>
  /\ clean = TRUE
  /\ writes = <<>>
  /\ asyncWriteMutex = <<>>
  /\ files = <<>>
  /\ last = Outcome("none", TRUE, NoError, "", 0)

\* convertValue(x, 'string', 'test') for the object x = object 1 of the graph
ConvertObject ==
  /\ returned.op = "input"
  /\ returned' = [op |-> "convertValue", arg |-> returned.arg,
                  out |-> convertObjectToString(returned.arg, <<"test">>)]
  /\ UNCHANGED storeVars

\* data about to be handed to formatAsEnvFile
EnvFileInit ==
  /\ \E data \in EnvData :
       returned = [op |-> "input", arg |-> data, out |-> <<>>]
  /\ schema = <<>>
  /\ env = <<>>
  /\ phase = "new"
  /\ config = <<>>
  /\ nestedObjectCache = <<>>
  /\ calls = <<>>
  /\ asyncLoadMutex = 0
  /\ supplied = <<>>
  /\ disturbed = FALSE
  /\ before = <<>>
  /\ clean = TRUE
  /\ writes = <<>>
  /\ asyncWriteMutex = <<>>
  /\ files = <<>>
  /\ last = Outcome("none", TRUE, NoError, "", 0)

\* fileContent = this.formatAsEnvFile(dataToFormat)
FormatAsEnvFile ==
  /\ returned.op = "input"
  /\ returned' = [op |-> "formatAsEnvFile", arg |-> returned.arg,
                  out |-> formatAsEnvFile(returned.arg)]
  /\ UNCHANGED storeVars

\* layersOver with the file layer applied over the environment layer
layersFileLast(defaulted, file, fileData) ==
  IF file # "" /\ ~fileData.ok
    THEN [config |-> defaulted, ok |-> FALSE, errors |-> <<fileData.err>>,
          err |-> fileData.err]
    ELSE validateAndConvertConfiguration(
           IF file # ""
             THEN MapSetAll(loadFromEnvironment(defaulted, parsedSchema, env),
                            fileData.data)
             ELSE loadFromEnvironment(defaulted, parsedSchema, env),
           parsedSchema)

\* loadConfiguration once the file was read: the file layer, the environment
\* layer and the validate-and-convert pass
layersOver(defaulted, file, fileData) ==
  IF file # "" /\ ~fileData.ok
    THEN [config |-> defaulted, ok |-> FALSE, errors |-> <<fileData.err>>,
          err |-> fileData.err]
    ELSE validateAndConvertConfiguration(
           loadFromEnvironment(
             IF file # "" THEN mergeData(defaulted, fileData.data)
             ELSE defaulted,
             parsedSchema, env),
           parsedSchema)

\* loadConfiguration: defaults, file, environment, validation
loadConfiguration(file) ==
  layersOver(applyDefaults(<<>>, parsedSchema), file, FileLoaderLoad(file))

\* new Envict({schema, file, env}); file "" stands for no file option
Constructor(file) ==
  /\ phase = "new"
  /\ \E r \in {loadConfiguration(file)} :
       /\ phase' = IF r.ok THEN "ready" ELSE "failed"
       /\ config' = r.config
       /\ last' = Outcome("constructor", r.ok, r.err, file, 0)
  /\ nestedObjectCache' = <<>>
  /\ UNCHANGED <<returned, schema, env, loadVars, clean, writeVars>>

\* history of a call is kept until the first operation after it settled
CallRunning == \E c \in 1..Len(calls) : calls[c].status = "running"
Kept(history) == IF CallRunning THEN history ELSE <<>>

\* load(filePath) after the file was read: merge, environment, validation
mergeAndValidate(store, newFileData) ==
  validateAndConvertConfiguration(
    loadFromEnvironment(mergeData(store, newFileData), parsedSchema, env),
    parsedSchema)

\* load(filePath)
Load(filePath) ==
  /\ phase = "ready"
  /\ \E newFileData \in {FileLoaderLoad(filePath)} :
       IF ~newFileData.ok
         THEN /\ last' = Outcome("load", FALSE, newFileData.err, filePath, 0)
              /\ clean' = FALSE
              /\ UNCHANGED <<config, nestedObjectCache, disturbed>>
         ELSE \E v \in {mergeAndValidate(config, newFileData.data)} :
                /\ config' = v.config
                /\ nestedObjectCache' =
                     IF v.ok THEN <<>> ELSE nestedObjectCache
                /\ disturbed' = CallRunning
                /\ clean' = (clean /\ v.ok)
                /\ last' = Outcome("load", v.ok, v.err, filePath, 0)
  /\ before' = Kept(before)
  /\ supplied' = Kept(supplied)
  /\ UNCHANGED <<returned, schema, env, phase, calls, asyncLoadMutex, writeVars>>

\* what get(key) returns or throws in the current state
GetResult(key) ==
  getSingleValue(config, nestedObjectCache, parsedSchema, key).res

\* get(key): a group's view is cached
Get(key) ==
  /\ phase = "ready"
  /\ nestedObjectCache' =
       getSingleValue(config, nestedObjectCache, parsedSchema, key).cache
  /\ UNCHANGED <<returned, schema, env, phase, config, loadVars, clean, writeVars, last>>

\* what tryGet(primaryKey, fallbackKey) returns or throws in the current state
TryGetResult(primaryKey, fallbackKey) ==
  tryGet(config, nestedObjectCache, parsedSchema, primaryKey, fallbackKey).res

\* tryGet(primaryKey, fallbackKey): the get() calls it makes may cache a view
TryGet(primaryKey, fallbackKey) ==
  /\ phase = "ready"
  /\ nestedObjectCache' =
       tryGet(config, nestedObjectCache, parsedSchema, primaryKey,
              fallbackKey).cache
  /\ UNCHANGED <<returned, schema, env, phase, config, loadVars, clean, writeVars, last>>

\* what get(keys) returns or throws in the current state
GetManyResult(keys) ==
  getMultipleValues(config, nestedObjectCache, parsedSchema, keys)

\* get(keys): the get() calls it makes may cache views
GetMany(keys) ==
  /\ phase = "ready"
  /\ nestedObjectCache' =
       getMultipleValues(config, nestedObjectCache, parsedSchema, keys).cache
  /\ UNCHANGED <<returned, schema, env, phase, config, loadVars, clean, writeVars, last>>

(***************************************************************************)
(* envict.ts asyncLoad: a chain of promises                                *)
(*                                                                         *)
(* A call is [n, pred, status, invoked, err]: the number of its loaders;   *)
(* the call whose promise it chained its body onto (0 for the initial      *)
(* Promise.resolve()); "pending" until the body starts, "running" while it *)
(* awaits a loader, then "fulfilled" or "rejected"; how many of its        *)
(* loaders had load() invoked; the error it rejected with.                 *)
(*                                                                         *)
(* supplied and disturbed are history variables about the call whose body  *)
(* started last: for each key its loaders have resolved with so far, the   *)
(* value of the last one to supply it, and whether a load() merged into    *)
(* the store while the call awaited a loader; before is the store as that  *)
(* body found it, kept until the first load() or asyncLoad() made after    *)
(* the call settled.                                                       *)
(***************************************************************************)
Settled(c) == calls[c].status \in {"fulfilled", "rejected"}

\* a body that does not wait for the promise it was chained onto
startsUnchained(c) == c \in 1..Len(calls)

\* a body that starts only once the promise it was chained onto has fulfilled
waitsForFulfilment(c) ==
  IF calls[c].pred = 0 THEN TRUE ELSE calls[calls[c].pred].status = "fulfilled"

\* promise.then(body): the body may start once the promise has settled
ChainedAfter(c) == IF calls[c].pred = 0 THEN TRUE ELSE Settled(calls[c].pred)

\* promise.then(body) on a rejected promise: the body is skipped
PassesRejection(c) ==
  IF calls[c].pred = 0 THEN FALSE ELSE calls[calls[c].pred].status = "rejected"

\* the tail of the body: validation, then the cache is cleared
FinishCall(c, newSupplied, store) ==
  \E v \in {validateAndConvertConfiguration(store, parsedSchema)} :
    /\ config' = v.config
    /\ nestedObjectCache' = IF v.ok THEN <<>> ELSE nestedObjectCache
    /\ calls' = [calls EXCEPT ![c].status =
                                IF v.ok THEN "fulfilled" ELSE "rejected",
                              ![c].err = v.err]
    /\ supplied' = newSupplied
    /\ clean' = (clean /\ v.ok)
    /\ last' = Outcome("asyncLoad", v.ok, v.err, "", c)

\* asyncLoad(l1..ln) up to its first await: the body is chained onto the mutex
AsyncLoad(n) ==
  /\ phase = "ready"
  /\ Len(calls) < MaxCalls
  /\ calls' = Append(calls, [n |-> n, pred |-> asyncLoadMutex,
                             status |-> "pending", invoked |-> 0,
                             loaderFailed |-> 0,
                             err |-> NoError])
  /\ asyncLoadMutex' = Len(calls) + 1
  /\ last' = Outcome("asyncLoad.call", TRUE, NoError, "", Len(calls) + 1)
  /\ before' = Kept(before)
  /\ supplied' = Kept(supplied)
  /\ disturbed' = (disturbed /\ CallRunning)
  /\ UNCHANGED <<returned, schema, env, phase, config, nestedObjectCache, clean,
                 writeVars>>

\* the promise the body was chained onto has settled: a rejection is passed
\* on without running the body; otherwise the body runs to its first await
StartCall(c) ==
  /\ c \in 1..Len(calls)
  /\ calls[c].status = "pending"
  /\ ChainedAfter(c)
  /\ IF PassesRejection(c)
       THEN /\ calls' = [calls EXCEPT ![c].status = "rejected",
                                      ![c].err = calls[calls[c].pred].err]
            /\ last' = Outcome("asyncLoad", FALSE, calls[calls[c].pred].err,
                               "", c)
            /\ clean' = FALSE
            /\ UNCHANGED <<config, nestedObjectCache, supplied, disturbed,
                           before>>
     ELSE IF calls[c].n = 0
       THEN FinishCall(c, <<>>, config) /\ disturbed' = FALSE
                                        /\ before' = config
     ELSE /\ calls' = [calls EXCEPT ![c].status = "running", ![c].invoked = 1]
          /\ supplied' = <<>>
          /\ disturbed' = FALSE
          /\ before' = config
          /\ clean' = clean
          /\ last' = Outcome("asyncLoad.start", TRUE, NoError, "", c)
          /\ UNCHANGED <<config, nestedObjectCache>>
  /\ UNCHANGED <<returned, schema, env, phase, asyncLoadMutex, writeVars>>

\* the awaited loader resolved with newData: merge, re-apply the environment,
\* then call the next loader or finish
LoaderResolves(c, newData) ==
  /\ c \in 1..Len(calls)
  /\ calls[c].status = "running"
  /\ \E store \in {loadFromEnvironment(mergeData(config, newData),
                                        parsedSchema, env)} :
       IF calls[c].invoked < calls[c].n
         THEN /\ config' = store
              /\ calls' = [calls EXCEPT ![c].invoked = @ + 1]
              /\ supplied' = MapSetAll(supplied, newData)
              /\ last' = Outcome("asyncLoad.merge", TRUE, NoError, "", c)
              /\ UNCHANGED <<nestedObjectCache, clean>>
         ELSE FinishCall(c, MapSetAll(supplied, newData), store)
  /\ UNCHANGED <<returned, schema, env, phase, asyncLoadMutex, disturbed, before,
                 writeVars>>

LoaderError(c, i) ==
  [Err("Error", <<>>, "loader failed", Undef) EXCEPT !.src = <<c, i>>]

\* a loop that catches the rejection and goes on to the next loader
skipRejected(call, err) == [call EXCEPT !.invoked = @ + 1]

\* a call whose awaited loader rejected: the await throws out of the loop
rejectCall(call, err) == [call EXCEPT !.status = "rejected", !.err = err]

\* the awaited loader rejected: the body throws and the call rejects
LoaderRejects(c) ==
  /\ c \in 1..Len(calls)
  /\ calls[c].status = "running"
  /\ LET k == calls[c].invoked
     IN  calls' = [calls EXCEPT
                     ![c] = rejectCall([calls[c] EXCEPT !.loaderFailed = k],
                                       LoaderError(c, k))]
  /\ clean' = FALSE
  /\ last' = Outcome("asyncLoad", calls'[c].status # "rejected", calls'[c].err,
                     "", c)
  /\ UNCHANGED <<returned, schema, env, phase, config, nestedObjectCache, asyncLoadMutex,
                 supplied, disturbed, before, writeVars>>

(***************************************************************************)
(* envict.ts asyncWrite: a chain of promises per file path                  *)
(*                                                                         *)
(* A write is [filePath, select, pred, status, content, temp, err].  Its    *)
(* status follows the awaits of the code: "importing" (awaiting the        *)
(* dynamic imports), "chained" (its operation is chained and stored in the *)
(* map), "mkdir", "writeFile", "rename" (the operation awaits that call),  *)
(* "cleanup" (writeFile or rename rejected and the catch block awaits      *)
(* unlink), "written" (the operation fulfilled), "done" (the call deleted  *)
(* the map entry and resolved), "failed" (the call rejected).  temp is     *)
(* what the write's temporary file holds: "none" while there is no such    *)
(* file, "partial" while writeFile is writing it or after writeFile        *)
(* failed, "complete" once writeFile resolved.                             *)
(***************************************************************************)
\* getAllConfigurationData: the store as one nested object
RECURSIVE nestAll(_, _)
nestAll(entries, result) ==
  IF entries = <<>> THEN result
  ELSE nestAll(Tail(entries),
               setNestedValue(result, Head(entries)[1], Head(entries)[2]))

getAllConfigurationData(store) == Obj("all", nestAll(store, {}))

\* JSON.stringify(configData, null, 2)
stringify(configData) ==
  IF configData.t = "object" THEN JsonText(configData.e)
  ELSE JsonText({<<<<>>, configData>>})

\* the write operation's body is running
InProgress(w) ==
  writes[w].status \in {"mkdir", "writeFile", "rename", "cleanup"}

\* existingMutex.then(body): the body may start once existingMutex settled;
\* reactions of one promise run in the order they were attached, so the
\* continuation of the call that owns existingMutex has run by then
WriteChainedAfter(w) ==
  IF writes[w].pred = 0 THEN TRUE
  ELSE writes[writes[w].pred].status \in {"done", "failed"}

\* existingMutex.then(body) on a rejected promise: the body is skipped
WritePassesRejection(w) ==
  IF writes[w].pred = 0 THEN FALSE
  ELSE writes[writes[w].pred].status = "failed"

WriteError(w, msg) ==
  [Err("Error", <<>>, msg, Undef) EXCEPT !.src = <<w>>]

\* asyncWrite(options) up to its first await
AsyncWrite(filePath, select) ==
  /\ phase = "ready"
  /\ Len(writes) < MaxWrites
  /\ writes' = Append(writes, [filePath |-> filePath, select |-> select,
                               pred |-> 0, status |-> "importing",
                               content |-> Undef, temp |-> "none",
                               err |-> NoError])
  /\ last' = Outcome("asyncWrite.call", TRUE, NoError, filePath, Len(writes) + 1)
  /\ UNCHANGED <<returned, schema, env, phase, config, nestedObjectCache, loadVars,
                 clean, asyncWriteMutex, files>>

\* one mutex for all paths: the write chained last, whatever its path
lastMutex(w) ==
  IF asyncWriteMutex = <<>> THEN 0
  ELSE asyncWriteMutex[Len(asyncWriteMutex)][2]

\* which write the map entry of w's path leads to, 0 for Promise.resolve()
existingMutex(w) ==
  IF MapHas(asyncWriteMutex, writes[w].filePath)
    THEN MapGet(asyncWriteMutex, writes[w].filePath)
    ELSE 0

\* the imports resolved (in the order they were requested): the operation is
\* chained onto the promise found in the map and stored in its place
ChainWrite(w) ==
  /\ w \in 1..Len(writes)
  /\ writes[w].status = "importing"
  /\ \A v \in 1..(w - 1) : writes[v].status # "importing"
  /\ writes' = [writes EXCEPT ![w].pred = existingMutex(w),
                              ![w].status = "chained"]
  /\ asyncWriteMutex' = MapSet(asyncWriteMutex, writes[w].filePath, w)
  /\ last' = Outcome("asyncWrite.chain", TRUE, NoError, writes[w].filePath, w)
  /\ UNCHANGED <<returned, schema, env, phase, config, nestedObjectCache, loadVars,
                 clean, files>>

\* the promise the operation was chained onto has settled: a rejection is
\* passed on and the call rejects; otherwise the body runs up to await mkdir
StartWrite(w) ==
  /\ w \in 1..Len(writes)
  /\ writes[w].status = "chained"
  /\ WriteChainedAfter(w)
  /\ IF WritePassesRejection(w)
       THEN /\ writes' = [writes EXCEPT
                            ![w].status = "failed",
                            ![w].err = writes[writes[w].pred].err]
            /\ last' = Outcome("asyncWrite", FALSE, writes[writes[w].pred].err,
                               writes[w].filePath, w)
       ELSE /\ writes' = [writes EXCEPT ![w].status = "mkdir"]
            /\ last' = Outcome("asyncWrite.start", TRUE, NoError,
                               writes[w].filePath, w)
  /\ UNCHANGED <<returned, schema, env, phase, config, nestedObjectCache, loadVars,
                 clean, asyncWriteMutex, files>>

\* mkdir resolved: the data is selected and serialized, writeFile is called
\* on a fresh temporary path; a failing get(select) rejects the call
SnapshotWrite(w) ==
  /\ w \in 1..Len(writes)
  /\ writes[w].status = "mkdir"
  /\ \E selected \in {getSingleValue(config, nestedObjectCache, parsedSchema,
                                       writes[w].select)} :
         IF writes[w].select = <<>>
           THEN /\ writes' = [writes EXCEPT
                                ![w].status = "writeFile",
                                ![w].temp = "partial",
                                ![w].content =
                                  stringify(getAllConfigurationData(config))]
                /\ last' = Outcome("asyncWrite.snapshot", TRUE, NoError,
                                   writes[w].filePath, w)
                /\ UNCHANGED nestedObjectCache
         ELSE IF selected.res.ok
           THEN /\ writes' = [writes EXCEPT
                                ![w].status = "writeFile",
                                ![w].temp = "partial",
                                ![w].content = stringify(selected.res.val)]
                /\ nestedObjectCache' = selected.cache
                /\ last' = Outcome("asyncWrite.snapshot", TRUE, NoError,
                                   writes[w].filePath, w)
         ELSE /\ writes' = [writes EXCEPT
                              ![w].status = "failed",
                              ![w].err = WriteError(w, "Failed to select")]
              /\ last' = Outcome("asyncWrite", FALSE,
                                 WriteError(w, "Failed to select"),
                                 writes[w].filePath, w)
              /\ UNCHANGED nestedObjectCache
  /\ UNCHANGED <<returned, schema, env, phase, config, loadVars, clean, asyncWriteMutex,
                 files>>

\* writeFile resolved: the temporary file holds the content; rename is called
TempWritten(w) ==
  /\ w \in 1..Len(writes)
  /\ writes[w].status = "writeFile"
  /\ writes' = [writes EXCEPT ![w].status = "rename", ![w].temp = "complete"]
  /\ last' = Outcome("asyncWrite.temp", TRUE, NoError, writes[w].filePath, w)
  /\ UNCHANGED <<returned, schema, env, phase, config, nestedObjectCache, loadVars,
                 clean, asyncWriteMutex, files>>

\* rename resolved: the temporary file has become the destination, which
\* holds what the temporary file held; the operation fulfils
Renamed(w) ==
  /\ w \in 1..Len(writes)
  /\ writes[w].status = "rename"
  /\ files' = MapSet(files, writes[w].filePath,
                     [writer |-> w, content |-> writes[w].content,
                      complete |-> writes[w].temp = "complete"])
  /\ writes' = [writes EXCEPT ![w].status = "written", ![w].temp = "none"]
  /\ last' = Outcome("asyncWrite.rename", TRUE, NoError, writes[w].filePath, w)
  /\ UNCHANGED <<returned, schema, env, phase, config, nestedObjectCache, loadVars,
                 clean, asyncWriteMutex>>

\* mkdir rejected: the operation throws and the call rejects
MkdirFails(w) ==
  /\ w \in 1..Len(writes)
  /\ writes[w].status = "mkdir"
  /\ writes' = [writes EXCEPT ![w].status = "failed",
                              ![w].err = WriteError(w, "file system error")]
  /\ last' = Outcome("asyncWrite", FALSE, WriteError(w, "file system error"),
                     writes[w].filePath, w)
  /\ UNCHANGED <<returned, schema, env, phase, config, nestedObjectCache, loadVars,
                 clean, asyncWriteMutex, files>>

\* writeFile or rename rejected: the catch block calls unlink on the
\* temporary file, which is as the failed call left it
WriteFails(w) ==
  /\ w \in 1..Len(writes)
  /\ writes[w].status \in {"writeFile", "rename"}
  /\ writes' = [writes EXCEPT ![w].status = "cleanup",
                              ![w].err = WriteError(w, "file system error")]
  /\ last' = Outcome("asyncWrite.catch", TRUE, NoError, writes[w].filePath, w)
  /\ UNCHANGED <<returned, schema, env, phase, config, nestedObjectCache, loadVars,
                 clean, asyncWriteMutex, files>>

\* a catch block that rethrows without removing the temporary file
rethrows(write) == [write EXCEPT !.status = "failed"]

\* the catch block after unlink: the temporary file is gone and the error is
\* thrown again
unlinked(write) == [write EXCEPT !.status = "failed", !.temp = "none"]

\* unlink returned: the operation throws and the call rejects
Unlinked(w) ==
  /\ w \in 1..Len(writes)
  /\ writes[w].status = "cleanup"
  /\ writes' = [writes EXCEPT ![w] = unlinked(writes[w])]
  /\ last' = Outcome("asyncWrite", FALSE, writes[w].err, writes[w].filePath, w)
  /\ UNCHANGED <<returned, schema, env, phase, config, nestedObjectCache, loadVars,
                 clean, asyncWriteMutex, files>>

\* Map.delete(key)
MapDelete(m, key) == SelectSeq(m, LAMBDA entry : entry[1] # key)

\* await writeOperation returned: the map entry of the path is deleted and
\* the call resolves
CompleteWrite(w) ==
  /\ w \in 1..Len(writes)
  /\ writes[w].status = "written"
  /\ asyncWriteMutex' = MapDelete(asyncWriteMutex, writes[w].filePath)
  /\ writes' = [writes EXCEPT ![w].status = "done"]
  /\ last' = Outcome("asyncWrite", TRUE, NoError, writes[w].filePath, w)
  /\ UNCHANGED <<returned, schema, env, phase, config, nestedObjectCache, loadVars,
                 clean, files>>

\* the synchronous store operations
Next ==
  \/ \E file \in FilePaths \cup {""} : Constructor(file)
  \/ \E filePath \in FilePaths : Load(filePath)
  \/ \E key \in QueryKeys : Get(key)
  \/ \E primaryKey, fallbackKey \in QueryKeys : TryGet(primaryKey, fallbackKey)
  \/ \E keys \in KeyLists : GetMany(keys)

Spec == Init /\ [][Next]_vars

\* asyncLoad calls, with load() calls made while they are pending
AsyncLoadNext ==
  \/ \E file \in FilePaths \cup {""} : Constructor(file)
  \/ \E filePath \in FilePaths : Load(filePath)
  \/ \E n \in 0..MaxLoaders : AsyncLoad(n)
  \/ \E c \in 1..MaxCalls : StartCall(c)
  \/ \E c \in 1..MaxCalls, newData \in LoaderData : LoaderResolves(c, newData)
  \/ \E c \in 1..MaxCalls : LoaderRejects(c)

AsyncLoadSpec == Init /\ [][AsyncLoadNext]_vars

\* the load() awaited by call c settles, one way or the other
LoaderSettles(c) ==
  \/ \E newData \in LoaderData : LoaderResolves(c, newData)
  \/ LoaderRejects(c)

\* asyncLoad calls on an instance constructed without a file
ChainNext ==
  \/ Constructor("")
  \/ \E n \in 0..MaxLoaders : AsyncLoad(n)
  \/ \E c \in 1..MaxCalls : StartCall(c)
  \/ \E c \in 1..MaxCalls, newData \in LoaderData : LoaderResolves(c, newData)
  \/ \E c \in 1..MaxCalls : LoaderRejects(c)

\* the promise call c chained its body onto has settled and the reaction has
\* not run yet: the guard of StartCall(c), which is ENABLED <<StartCall(c)>>_vars
\* because each of its branches changes calls[c].status
StartDue(c) ==
  /\ c \in 1..Len(calls)
  /\ calls[c].status = "pending"
  /\ ChainedAfter(c)

\* the step StartCall(c) takes: no other action of ChainNext moves a call out
\* of "pending"
Starts(c) == StartDue(c) /\ calls'[c].status # "pending"

\* call c awaits a loader: the guard of LoaderSettles(c), which is
\* ENABLED <<LoaderSettles(c)>>_vars because LoaderRejects(c) has no other
\* condition
Awaiting(c) == c \in 1..Len(calls) /\ calls[c].status = "running"

\* the step LoaderSettles(c) takes: no other action of ChainNext changes a
\* call that is running
Settles(c) == Awaiting(c) /\ calls'[c] # calls[c]

\* asyncLoad calls whose promise reactions are run once they are due and
\* whose loaders all settle in the end: weak fairness of StartCall(c) and of
\* LoaderSettles(c), WF_vars(A) written out as
\* []<>~(ENABLED <<A>>_vars) \/ []<><<A>>_vars with the enabling conditions
\* and steps above
ChainFairSpec ==
  /\ Init
  /\ [][ChainNext]_vars
  /\ \A c \in 1..MaxCalls :
       /\ []<>~StartDue(c) \/ []<><<Starts(c)>>_vars
       /\ []<>~Awaiting(c) \/ []<><<Settles(c)>>_vars

\* asyncWrite calls
AsyncWriteNext ==
  \/ \E file \in FilePaths \cup {""} : Constructor(file)
  \/ \E filePath \in WritePaths, select \in Selects : AsyncWrite(filePath, select)
  \/ \E w \in 1..MaxWrites : ChainWrite(w)
  \/ \E w \in 1..MaxWrites : StartWrite(w)
  \/ \E w \in 1..MaxWrites : SnapshotWrite(w)
  \/ \E w \in 1..MaxWrites : TempWritten(w)
  \/ \E w \in 1..MaxWrites : Renamed(w)
  \/ \E w \in 1..MaxWrites : CompleteWrite(w)
  \/ \E w \in 1..MaxWrites : MkdirFails(w)
  \/ \E w \in 1..MaxWrites : WriteFails(w)
  \/ \E w \in 1..MaxWrites : Unlinked(w)

AsyncWriteSpec == Init /\ [][AsyncWriteNext]_vars

\* construction, load() and asyncLoad() without loaders over SchemaFormats
FormatsNext ==
  \/ \E file \in FormatFiles \cup {""} : Constructor(file)
  \/ \E filePath \in FormatFiles : Load(filePath)
  \/ \E key \in FormatKeys : Get(key)
  \/ AsyncLoad(0)
  \/ \E c \in 1..MaxCalls : StartCall(c)

FormatsSpec == FormatsInit /\ [][FormatsNext]_vars

\* the introspection helpers of schema-parser.ts applied to a schema
SchemaNext ==
  \/ \E path \in SchemaPaths : HasProperty(path)
  \/ \E path \in SchemaPaths : GetProperty(path)
  \/ GetPropertyPaths

SchemaSpec == SchemaInit /\ [][SchemaNext]_vars

\* construction, load() and asyncLoad() with loaders over SchemaFormats, at
\* most MaxJoint asyncLoad calls
TypedNext ==
  \/ \E file \in FormatFiles \cup {""} : Constructor(file)
  \/ \E filePath \in FormatFiles : Load(filePath)
  \/ \E n \in 1..MaxLoaders : Len(calls) < MaxJoint /\ AsyncLoad(n)
  \/ \E c \in 1..MaxCalls : StartCall(c)
  \/ \E c \in 1..MaxCalls, newData \in FormatLoaderData :
       LoaderResolves(c, newData)

TypedSpec == FormatsInit /\ [][TypedNext]_vars

\* asyncWrite calls made while asyncLoad calls are pending, at most MaxJoint
\* calls of each
LoadWriteNext ==
  \/ Constructor("")
  \/ \E n \in 1..MaxLoaders : Len(calls) < MaxJoint /\ AsyncLoad(n)
  \/ \E c \in 1..MaxCalls : StartCall(c)
  \/ \E c \in 1..MaxCalls, newData \in LoaderData : LoaderResolves(c, newData)
  \/ \E select \in Selects :
       Len(writes) < MaxJoint /\ AsyncWrite("out/a.json", select)
  \/ \E w \in 1..MaxWrites : ChainWrite(w)
  \/ \E w \in 1..MaxWrites : StartWrite(w)
  \/ \E w \in 1..MaxWrites : SnapshotWrite(w)
  \/ \E w \in 1..MaxWrites : TempWritten(w)
  \/ \E w \in 1..MaxWrites : Renamed(w)
  \/ \E w \in 1..MaxWrites : CompleteWrite(w)

LoadWriteSpec == Init /\ [][LoadWriteNext]_vars

\* parseSchema over valid and invalid schemas
ParseNext == ParseSchema

ParseSpec == ParseInit /\ [][ParseNext]_vars

\* string conversion of objects that may hold cycles
CircularNext == ConvertObject

CircularSpec == CircularInit /\ [][CircularNext]_vars

\* the env-file format
EnvFileNext == FormatAsEnvFile

EnvFileSpec == EnvFileInit /\ [][EnvFileNext]_vars

(***************************************************************************)
(* Properties                                                              *)
(***************************************************************************)
Leaves == MapKeys(parsedSchema.properties)
LeafOf(p) == MapGet(parsedSchema.properties, p)
Groups == {SubSeq(p, 1, i) : <<p, i>> \in
             {<<q, j>> \in Leaves \X (1..2) : j < Len(q)}}

\* leaf p declares an environment variable and the env source sets it
EnvSet(p) == LeafOf(p).env # "" /\ MapGet(env, LeafOf(p).env) # Undef

\* another leaf declares the same environment variable as p
SharesEnv(p) ==
  \E q \in Leaves : q # p /\ LeafOf(q).env # "" /\ LeafOf(q).env = LeafOf(p).env

\* the environment value of leaf p, converted to the leaf's format
ConvertedEnv(p) == convertValue(MapGet(env, LeafOf(p).env), LeafOf(p).format, p)

\* what the precedence law gives leaf p after construction with `file`
ByPrecedence(p, file) ==
  IF EnvSet(p) THEN ConvertedEnv(p)
  ELSE IF file # "" /\ MapHas(FileLoaderLoad(file).data, p)
    THEN convertValue(MapGet(FileLoaderLoad(file).data, p), LeafOf(p).format, p)
  ELSE Ok(LeafOf(p).default)

\* C1: after a successful construction, every leaf whose environment
\* variable no other leaf declares reads as the converted environment value
\* if the variable is set, else the converted file value if the file supplies
\* the leaf, else the declared default.
PrecedenceAtConstruction ==
  (last.op = "constructor" /\ last.ok) =>
    \A p \in Leaves : ~SharesEnv(p) => GetResult(p) = ByPrecedence(p, last.file)

\* a construction in which the environment beat the file for db.port and the
\* file beat the default for db.host
PrecedenceReached ==
  /\ last.op = "constructor" /\ last.ok /\ last.file = "valid.json"
  /\ MapGet(env, "DB_PORT") = Str(" 8080")
  /\ MapGet(FileLoaderLoad("valid.json").data, <<"db", "port">>) = Str("1")
  /\ GetResult(<<"db", "port">>) = Ok(Num("8080"))
  /\ GetResult(<<"db", "host">>) = Ok(Str("abc"))

\* C2: after any sequence of successful load() and asyncLoad() calls, every
\* leaf whose environment variable is set reads as the converted environment
\* value.
EnvironmentAlwaysWins ==
  (phase = "ready" /\ clean /\ last.op \in {"load", "asyncLoad"} /\ last.ok) =>
    \A p \in Leaves : EnvSet(p) => GetResult(p) = ConvertedEnv(p)

\* C3: a load() that throws leaves every get(k) as it was before the call.
FailedLoadChangesNothing ==
  [][(last'.op = "load" /\ ~last'.ok) =>
       \A k \in QueryKeys : GetResult(k)' = GetResult(k)]_vars

\* C4: after an asyncLoad() whose loaders ran and which rejected, with no
\* load() in between, every get(k) is as it was before the call's body
\* started, and the store still passes validation.
FailedAsyncLoadChangesNothing ==
  \A c \in 1..Len(calls) :
    (/\ last.op = "asyncLoad" /\ ~last.ok /\ last.call = c
     /\ calls[c].invoked > 0 /\ ~disturbed) =>
      /\ \A k \in QueryKeys :
           GetResult(k) =
             getSingleValue(before, nestedObjectCache, parsedSchema, k).res
      /\ validateAndConvertConfiguration(config, parsedSchema).ok

\* C5: of two asyncLoad calls, the later one's body has not started (none of
\* its loaders is invoked, none of its data merged) until the earlier one has
\* settled.
CallsTotallyOrdered ==
  \A a, b \in 1..Len(calls) :
    (a < b /\ calls[b].status # "pending") => Settled(a)

\* a second call issued and waiting while the first awaits its second loader
SecondCallWaits ==
  /\ Len(calls) = 2
  /\ calls[1].status = "running" /\ calls[1].invoked = 2
  /\ calls[2].status = "pending" /\ calls[2].n > 0

\* C6: no two asyncWrite operations for the same file path are in progress
\* at the same time.
WritesMutuallyExclusive ==
  \A v, w \in 1..Len(writes) :
    (v # w /\ writes[v].filePath = writes[w].filePath) =>
      ~(InProgress(v) /\ InProgress(w))

\* the writes issued for file path f
WritesTo(f) == {w \in 1..Len(writes) : writes[w].filePath = f}

\* C7: once every write issued for a path has completed successfully, the
\* file holds the content of the write issued last.
WritesInIssueOrder ==
  \A f \in WritePaths :
    (WritesTo(f) # {} /\ \A w \in WritesTo(f) : writes[w].status = "done") =>
      MapGet(files, f).writer = CHOOSE w \in WritesTo(f) :
                                  \A v \in WritesTo(f) : v <= w

\* C8: when loader k of a call rejects, the call is rejected with that
\* loader's error and no loader after k has been invoked.
FailFast ==
  \A c \in 1..Len(calls) :
    calls[c].loaderFailed > 0 =>
      /\ calls[c].status = "rejected"
      /\ calls[c].err = LoaderError(c, calls[c].loaderFailed)
      /\ calls[c].invoked = calls[c].loaderFailed

\* the first of two loaders rejected and the call rejected with its error
FirstOfTwoRejected ==
  \E c \in 1..Len(calls) :
    /\ calls[c].n = 2 /\ calls[c].loaderFailed = 1
    /\ last = Outcome("asyncLoad", FALSE, LoaderError(c, 1), "", c)

\* the value a key holds once the pass has converted what a loader supplied
Converted(k, v) ==
  IF k \in Leaves THEN convertValue(v, LeafOf(k).format, k).val ELSE v

\* C9: while a call awaits loader N+1 the store holds, for every key the
\* loaders 1..N supplied, the value of the last of them to supply it; once
\* the call has fulfilled the store holds that value converted.  Keys whose
\* leaf has its environment variable set are left to the environment, and
\* calls during which a load() merged are left out.
LoadersInArgumentOrder ==
  \A c \in 1..Len(calls) :
    /\ calls[c].status = "running" => calls[c].invoked \in 1..calls[c].n
    /\ (calls[c].status = "running" /\ ~disturbed) =>
         \A k \in MapKeys(supplied) :
           (k \in Leaves => ~EnvSet(k)) =>
             MapGet(config, k) = MapGet(supplied, k)
    /\ (last = Outcome("asyncLoad", TRUE, NoError, "", c) /\ ~disturbed) =>
         \A k \in MapKeys(supplied) :
           (k \in Leaves => ~EnvSet(k)) =>
             MapGet(config, k) = Converted(k, MapGet(supplied, k))

\* a fulfilled call of two loaders: both supplied db.port, only the first
\* supplied db.host, and db.port reads as the second loader's value
LastLoaderWon ==
  \E c \in 1..Len(calls) :
    /\ last = Outcome("asyncLoad", TRUE, NoError, "", c) /\ ~disturbed
    /\ calls[c].n = 2 /\ env = <<>>
    /\ MapGet(supplied, <<"db", "host">>) = Num("0")
    /\ MapGet(supplied, <<"db", "port">>) = Num("1")
    /\ GetResult(<<"db", "port">>) = Ok(Num("1"))

\* C10: after a successful construction, load() or asyncLoad(), get(g) of
\* every group g is an object whose field at each leaf below g equals get()
\* of that leaf.
NestedFlatEquivalence ==
  (last.op \in {"constructor", "load", "asyncLoad"} /\ last.ok) =>
    \A g \in Groups :
      /\ GetResult(g).ok
      /\ GetResult(g).val.t = "object"
      /\ \A p \in Leaves :
           StartsWith(p, g) =>
             /\ GetResult(p).ok
             /\ SameValue(Navigate(GetResult(g).val.e,
                                   SubSeq(p, Len(g) + 1, Len(p))),
                          GetResult(p).val)

\* C11: while an asyncLoad call awaits a loader, with no load() made since
\* its body started and no failed mutation before, every get(k) returns what
\* it returned when the body started: the state left by the last completed
\* successful mutation.
ReadsSeeValidatedStore ==
  \A c \in 1..Len(calls) :
    (calls[c].status = "running" /\ clean /\ ~disturbed) =>
      \A k \in QueryKeys :
        GetResult(k) =
          getSingleValue(before, nestedObjectCache, parsedSchema, k).res

\* the step is a load() of a file that contributes no keys, or the body of an
\* asyncLoad() without loaders, made when no mutation has failed so far
RevalidatesOnly ==
  /\ phase = "ready" /\ clean
  /\ \/ last'.op = "load" /\ last'.file = "empty.json"
     \/ last'.op = "asyncLoad" /\ calls'[last'.call].n = 0

\* C12: after a successful construction, load() or asyncLoad(), a load() of a
\* file that contributes no keys and an asyncLoad() without loaders succeed
\* and leave get(k) unchanged for every k, whatever the formats of the leaves.
RevalidationIdempotent ==
  [][RevalidatesOnly =>
       /\ last'.ok
       /\ \A k \in FormatKeys : GetResult(k)' = GetResult(k)]_vars

\* the stores the pass is run on by new Envict({file}) and by load(file)
RawAtConstruction(file) ==
  loadFromEnvironment(
    IF file # ""
      THEN mergeData(applyDefaults(<<>>, parsedSchema),
                     FileLoaderLoad(file).data)
      ELSE applyDefaults(<<>>, parsedSchema),
    parsedSchema, env)
RawAtLoad(file) ==
  loadFromEnvironment(mergeData(config, FileLoaderLoad(file).data),
                      parsedSchema, env)

\* the error leaf p of store `raw` fails with, NoError if it does not fail
FailureOf(raw, p) == validateProperty(MapGet(raw, p), p, LeafOf(p)).err
FailingLeaves(raw) == {p \in Leaves : FailureOf(raw, p) # NoError}

\* the outcome of a pass over `raw` is the one the aggregation rule gives
RaisedAsSpecified(raw, outcome) ==
  CASE Cardinality(FailingLeaves(raw)) = 0 ->
         outcome.ok /\ outcome.err = NoError
    [] Cardinality(FailingLeaves(raw)) = 1 ->
         /\ ~outcome.ok
         /\ \E p \in FailingLeaves(raw) : outcome.err = FailureOf(raw, p)
    [] OTHER ->
         /\ ~outcome.ok
         /\ outcome.err.kind = "ValidationError"
         /\ Len(outcome.err.lines) = Cardinality(FailingLeaves(raw))
         /\ {outcome.err.lines[i][1] : i \in 1..Len(outcome.err.lines)} =
              FailingLeaves(raw)
         /\ Len(outcome.err.value) = Cardinality(FailingLeaves(raw))
         /\ {outcome.err.value[i] : i \in 1..Len(outcome.err.value)} =
              {FailureOf(raw, p) : p \in FailingLeaves(raw)}

\* C13: the pass run by a construction or a load() whose file was read raises
\* nothing when no leaf fails, the leaf's own error (a ParseError stays a
\* ParseError, a ValidationError a ValidationError) when exactly one fails,
\* and when N >= 2 fail one ValidationError whose message names the N paths
\* and whose value lists the N underlying errors.
AggregationComplete ==
  [][\A file \in FormatFiles \cup {""} :
       (file = "" \/ FileLoaderLoad(file).ok) =>
         /\ Constructor(file) =>
              RaisedAsSpecified(RawAtConstruction(file), last')
         /\ (file # "" /\ Load(file)) =>
              RaisedAsSpecified(RawAtLoad(file), last')]_vars

\* a construction in which three leaves failed, as ValidationError (required
\* name), ParseError (server.port) and ValidationError (pattern of code), and
\* threw one aggregate
ThreeErrorsAggregated ==
  /\ last.op = "constructor" /\ ~last.ok
  /\ last.err.kind = "ValidationError"
  /\ last.err.property = <<"configuration">>
  /\ Len(last.err.value) = 3
  /\ last.err.value[1].kind = "ValidationError"
  /\ last.err.value[1].property = <<"name">>
  /\ last.err.value[2].kind = "ParseError"
  /\ last.err.value[2].property = <<"server", "port">>
  /\ last.err.value[3].msg = "pattern mismatch"

\* leaf p receives a value from the environment or from the file read
Receives(p, file) ==
  \/ EnvSet(p)
  \/ file # "" /\ MapHas(FileLoaderLoad(file).data, p)

RequiredError(p) == Err("ValidationError", p, "Required property", Undef)

TryGetFallbackLaw ==
  [][/\ \A p, f \in QueryKeys :
          phase = "ready" =>
          /\ GetResult(p).ok => TryGetResult(p, f) = GetResult(p)
          /\ (~GetResult(p).ok /\ GetResult(f).ok) =>
               TryGetResult(p, f) = GetResult(f)
          /\ (~GetResult(p).ok /\ ~GetResult(f).ok) =>
               /\ ~TryGetResult(p, f).ok
               /\ TryGetResult(p, f).err.kind = "ValidationError"
               /\ TryGetResult(p, f).err.lines =
                    <<<<p, GetResult(p).err.msg>>, <<f, GetResult(f).err.msg>>>>
     /\ \A p, f \in QueryKeys : TryGet(p, f) => config' = config]_vars

\* after load('valid.json'): get('nope') fails, get('extra') succeeds and
\* tryGet('nope', 'extra') returns the file's value, while tryGet('nope', 'b')
\* throws; the group view tryGet('nope', 'db') built is cached
FallbackUsed ==
  /\ phase = "ready" /\ schema = SchemaDb
  /\ ~GetResult(<<"nope">>).ok /\ ~GetResult(<<"b">>).ok
  /\ TryGetResult(<<"nope">>, <<"extra">>) = Ok(Bool("true"))
  /\ ~TryGetResult(<<"nope">>, <<"b">>).ok
  /\ MapHas(nestedObjectCache, <<"db">>)

\* the keys of a list, and the failing ones in list order
KeysOf(keys) == {keys[i] : i \in 1..Len(keys)}
FailingKeys(keys) == SelectSeq(keys, LAMBDA k : ~GetResult(k).ok)

\* C16: on a constructed instance get(keys) resolves every key as get(key)
\* does.  If a key fails it
\* throws one ValidationError whose message holds every failing key's
\* message and whose value is the whole key list, and returns no result; if
\* none fails the result has exactly one entry per distinct key, holding
\* get(key).
GetManyAllOrNothing ==
  \A keys \in KeyLists :
    phase = "ready" =>
    IF FailingKeys(keys) # <<>>
      THEN /\ ~GetManyResult(keys).ok
           /\ GetManyResult(keys).entries = <<>>
           /\ GetManyResult(keys).err.kind = "ValidationError"
           /\ GetManyResult(keys).err.value = keys
           /\ GetManyResult(keys).err.lines =
                [i \in 1..Len(FailingKeys(keys)) |->
                   <<FailingKeys(keys)[i],
                     GetResult(FailingKeys(keys)[i]).err.msg>>]
      ELSE /\ GetManyResult(keys).ok
           /\ MapKeys(GetManyResult(keys).entries) = KeysOf(keys)
           /\ Len(GetManyResult(keys).entries) = Cardinality(KeysOf(keys))
           /\ \A k \in KeysOf(keys) :
                MapGet(GetManyResult(keys).entries, k) = GetResult(k).val

\* a store where get(['a', 'nope']) throws for 'nope' alone while
\* get(['a', 'a']) returns one entry and get([]) returns {}
ManyKeysReached ==
  /\ phase = "ready" /\ schema = SchemaDup
  /\ GetResult(<<"a">>).ok /\ ~GetResult(<<"nope">>).ok
  /\ ~GetManyResult(<<<<"a">>, <<"nope">>>>).ok
  /\ Len(GetManyResult(<<<<"a">>, <<"nope">>>>).err.lines) = 1
  /\ Len(GetManyResult(<<<<"a">>, <<"a">>>>).entries) = 1
  /\ GetManyResult(<<>>).ok /\ GetManyResult(<<>>).entries = <<>>

\* C17: a write is chained only onto a write to its own path, fails only with
\* the error of a write to its own path, and may start as soon as no other
\* write to its path is chained before it or running, whatever the writes to
\* other paths are doing.
DistinctPathsIndependent ==
  \A w \in 1..Len(writes) :
    /\ writes[w].pred # 0 =>
         writes[writes[w].pred].filePath = writes[w].filePath
    /\ writes[w].status = "failed" =>
         writes[writes[w].err.src[1]].filePath = writes[w].filePath
    /\ (/\ writes[w].status = "chained"
        /\ \A v \in WritesTo(writes[w].filePath) \ {w} :
             writes[v].status \in {"importing", "done", "failed"}) =>
         WriteChainedAfter(w)

\* the first write, to one path, is in its catch block after a failure while
\* a later write to the other path awaits its rename
PathsInterleave ==
  \E v, w \in 1..Len(writes) :
    /\ v < w /\ writes[v].filePath # writes[w].filePath
    /\ writes[v].status = "cleanup"
    /\ writes[w].status = "rename"

IntrospectionAgreesWithParser ==
  /\ returned.op = "hasProperty" =>
       returned.out = MapHas(parseSchema(schema).properties, returned.arg)
  /\ returned.op = "getProperty" =>
       returned.out =
         IF MapHas(parseSchema(schema).properties, returned.arg)
           THEN <<MapGet(parseSchema(schema).properties, returned.arg)>>
           ELSE <<>>
  /\ returned.op = "getPropertyPaths" =>
       /\ {returned.out[i] : i \in 1..Len(returned.out)} =
            MapKeys(parseSchema(schema).properties)
       /\ Len(returned.out) = Len(parseSchema(schema).properties)

\* the objects reachable from object n in one or more steps
Targets(graph, n) == {graph[n][i][2] : i \in 1..Len(graph[n])} \ {0}
RECURSIVE ReachableIn(_, _, _)
ReachableIn(graph, from, steps) ==
  IF steps = 0 THEN from
  ELSE ReachableIn(graph,
                   from \cup UNION {Targets(graph, n) : n \in from},
                   steps - 1)
ReachableFrom(graph, n) == ReachableIn(graph, Targets(graph, n), MaxObjects)

\* some object of x (x itself included) is reachable from itself
HasCycle(graph) ==
  \E n \in {1} \cup ReachableFrom(graph, 1) : n \in ReachableFrom(graph, n)

\* the object found by following `path` from object n, 0 if there is none
RECURSIVE Follow(_, _, _)
Follow(graph, n, path) ==
  IF path = <<>> \/ n = 0 THEN n
  ELSE IF \E i \in 1..Len(graph[n]) : graph[n][i][1] = Head(path)
    THEN Follow(graph,
                graph[n][CHOOSE i \in 1..Len(graph[n]) :
                           graph[n][i][1] = Head(path)][2],
                Tail(path))
  ELSE 0

\* C20: convertValue(x, 'string', p) of an object x throws exactly when some
\* object is reachable from itself; what it throws is a ParseError carrying
\* property p and value x whose message names a path that leads from x back
\* into the cycle; an object merely shared by two members converts.
CycleDetection ==
  returned.op = "convertValue" =>
    IF HasCycle(returned.arg)
      THEN /\ ~returned.out.ok
           /\ returned.out.kind = "ParseError"
           /\ returned.out.property = <<"test">>
           /\ returned.out.value = 1
           /\ returned.out.path # <<>>
           /\ Follow(returned.arg, 1, returned.out.path) \in
                ReachableFrom(returned.arg,
                              Follow(returned.arg, 1, returned.out.path))
      ELSE returned.out.ok

\* the leaves of the data: <<dotted path, value>> for every member that is
\* not an object, at any depth
RECURSIVE LeavesOfData(_, _)
LeavesOfData(data, prefix) ==
  IF data = <<>> THEN <<>>
  ELSE (IF Head(data).isObject
          THEN LeavesOfData(Head(data).kids,
                            prefix \o Head(data).key \o <<".">>)
          ELSE <<<<prefix \o Head(data).key, Head(data).val>>>>)
         \o LeavesOfData(Tail(data), prefix)

IsWhitespaceOrQuote(c) == c \in {" ", "\t", "\"", "'"}

\* the line the env format prescribes for a leaf
PrescribedLine(leaf) ==
  EnvLine(dotsToUnderscores(toUpperCase(leaf[1])),
          IF leaf[2] = Null \/ leaf[2] = Undef THEN <<>>
          ELSE IF leaf[2].t # "string" THEN leaf[2].s
          ELSE IF \E i \in 1..Len(leaf[2].s) : IsWhitespaceOrQuote(leaf[2].s[i])
            THEN <<"\"">> \o escapeQuotes(leaf[2].s) \o <<"\"">>
          ELSE leaf[2].s)

Occurrences(seq, x) == Cardinality({i \in 1..Len(seq) : seq[i] = x})

\* C21: the env file holds exactly one line KEY=VALUE per leaf, KEY the
\* dotted path upper-cased with dots as underscores, VALUE quoted and escaped
\* when the string holds whitespace or a quote, bare otherwise, empty for
\* null and undefined; and the lines are in lexicographic order of KEY.
EnvFileAsSpecified ==
  returned.op = "formatAsEnvFile" =>
    /\ Len(returned.out) = Len(LeavesOfData(returned.arg, <<>>))
    /\ \A i \in 1..Len(LeavesOfData(returned.arg, <<>>)) :
         Occurrences(returned.out,
                     PrescribedLine(LeavesOfData(returned.arg, <<>>)[i]))
           = Occurrences([j \in 1..Len(LeavesOfData(returned.arg, <<>>)) |->
                            PrescribedLine(LeavesOfData(returned.arg, <<>>)[j])],
                         PrescribedLine(LeavesOfData(returned.arg, <<>>)[i]))
    /\ \A i \in 1..Len(returned.out), j \in 1..Len(returned.out) :
         i < j => ~sortsBefore(returned.out[j].name, returned.out[i].name)

\* the <<path, value>> pairs the store holds, an object value standing for
\* the pairs of its own leaves
StoredPairs ==
  UNION {Inline(config[i][1], config[i][2]) : i \in 1..Len(config)}

\* C22: get() with no key is a faithful projection of the store: the leaves
\* of the tree it returns are exactly the <<path, value>> pairs the store
\* holds, also when a stored key is a dotted prefix of another stored key.
GetAllIsFaithful ==
  phase = "ready" => getAllConfigurationData(config).e = StoredPairs

\* C23: the nested-view cache is never stale: in every reachable state, also
\* after a load() or asyncLoad() that failed, get(key) returns what it would
\* return were the view built afresh from the current store.
CacheNeverStale ==
  phase = "ready" =>
    \A key \in QueryKeys :
      GetResult(key) = getSingleValue(config, <<>>, parsedSchema, key).res

\* the leaves of a schema as <<property path, leaf>> pairs
RECURSIVE LeavesOfSchema(_, _)
LeavesOfSchema(entries, prefix) ==
  IF entries = <<>> THEN {}
  ELSE (IF Head(entries).format # "none"
          THEN {<<prefix \o Head(entries).key, Head(entries)>>}
          ELSE LeavesOfSchema(Head(entries).kids, prefix \o Head(entries).key))
         \cup LeavesOfSchema(Tail(entries), prefix)

IssuedAfterRejection(c) ==
  /\ last.op = "asyncLoad.call"
  /\ last.call = c
  /\ calls[c].pred # 0
  /\ calls[calls[c].pred].status = "rejected"

\* call c has loaders and rejected without load() of any of them invoked
RejectedUnrun(c) ==
  /\ c \in 1..Len(calls)
  /\ calls[c].n > 0
  /\ calls[c].status = "rejected"
  /\ calls[c].invoked = 0

\* C25: a rejected asyncLoad call does not disable the instance: a call with
\* loaders that is issued after an earlier call has rejected has its loaders
\* invoked; the step that follows its issue does not reject it without
\* having run them.
RejectionDoesNotDisable ==
  [][\A c \in 1..MaxCalls :
       IssuedAfterRejection(c) => ~RejectedUnrun(c)']_vars

\* write w has just chained its operation onto a promise of its path that
\* had already rejected
ChainedOntoRejection(w) ==
  /\ last.op = "asyncWrite.chain"
  /\ last.call = w
  /\ writes[w].pred # 0
  /\ writes[writes[w].pred].status = "failed"

\* write w rejected with the error of another write, its body never run
WriteRejectedUnrun(w) ==
  /\ w \in 1..Len(writes)
  /\ writes[w].status = "failed"
  /\ writes[w].err.src # <<w>>

\* every write issued to path f has resolved or rejected
AllSettled(f) ==
  /\ WritesTo(f) # {}
  /\ \A w \in WritesTo(f) : writes[w].status \in {"done", "failed"}

\* C26: a rejected asyncWrite does not block its destination: a write issued
\* to the same path after the rejection runs its own body, so the step that
\* follows its chaining does not reject it with the earlier write's error;
\* and once every write to a path has settled, the mutex map holds no entry
\* for that path.
RejectedWriteDoesNotBlock ==
  /\ [][\A w \in 1..MaxWrites :
          ChainedOntoRejection(w) => ~WriteRejectedUnrun(w)']_vars
  /\ [][\A f \in WritePaths :
          AllSettled(f)' => ~MapHas(asyncWriteMutex', f)]_vars

\* the store has passed the validate-and-convert pass: the pass accepts it
\* and has nothing left to convert
Validated(store) ==
  /\ validateAndConvertConfiguration(store, parsedSchema).ok
  /\ validateAndConvertConfiguration(store, parsedSchema).config = store

\* write w takes its snapshot of the store in this step
TakesSnapshot(w) ==
  /\ w \in 1..Len(writes)
  /\ writes[w].status = "mkdir"
  /\ writes'[w].status = "writeFile"

\* C27: asyncWrite persists only validated state: the store a write
\* serializes, read in one step, has passed the validate-and-convert pass,
\* also when the write runs while an asyncLoad call is pending.
WritesOnlyValidated ==
  [][\A w \in 1..MaxWrites : TakesSnapshot(w) => Validated(config)]_vars

\* a value of the type the format declares
HasDeclaredType(value, format) ==
  CASE format = "string" -> value.t = "string"
    [] format = "number" -> value.t = "number" /\ value.s \in NumericTexts
    [] format = "boolean" -> value.t = "boolean" /\ value.s \in {"true", "false"}
    [] format = "regex" -> value.t = "string" /\ PatternTest(value.s)
    [] format = "json" -> value.t # "undefined"
    [] OTHER -> FALSE

\* a construction, load() or asyncLoad() has just succeeded
JustSucceeded ==
  /\ phase = "ready"
  /\ last.ok
  /\ last.op \in {"constructor", "load", "asyncLoad"}

\* C28: after every successful construction, load() or asyncLoad(), get(p)
\* of every schema leaf p does not throw and returns null or a value of the
\* type p's format declares, whatever raw values the sources supplied.
TypedStore ==
  JustSucceeded =>
    \A p \in Leaves :
      /\ GetResult(p).ok
      /\ \/ GetResult(p).val = Null
         \/ HasDeclaredType(GetResult(p).val, LeafOf(p).format)

\* call c has been issued
Issued(c) == c \in 1..Len(calls)
\* call c has resolved or rejected
HasSettled(c) == c \in 1..Len(calls) /\ Settled(c)

\* call c resolves in this step
Resolves(c) ==
  /\ c \in 1..Len(calls)
  /\ calls[c].status # "fulfilled"
  /\ calls'[c].status = "fulfilled"

\* C29: asyncLoad never hangs on the mutex chain: when every loader settles
\* in the end, every call issued settles in the end; and a call resolves only
\* in the step in which, all of its own loaders invoked and their data in the
\* store, its own validate-and-convert pass has accepted the store.
AsyncLoadSettles ==
  /\ \A c \in 1..MaxCalls : Issued(c) ~> HasSettled(c)
  /\ [][\A c \in 1..MaxCalls :
          Resolves(c) =>
            /\ calls[c].status \in {"pending", "running"}
            /\ calls'[c].invoked = calls[c].n
            /\ \A k \in MapKeys(supplied') : MapHas(config', k)
            /\ validateAndConvertConfiguration(config', parsedSchema).ok
            /\ last' = Outcome("asyncLoad", TRUE, NoError, "", c)]_vars

\* a call with two loaders has resolved with both invoked, and the call
\* chained onto it has settled after it
ChainSettled ==
  \E c, d \in 1..Len(calls) :
    /\ calls[d].pred = c
    /\ calls[c].n = 2
    /\ calls[c].status = "fulfilled"
    /\ calls[c].invoked = 2
    /\ Settled(d)

\* C30: each env-bound leaf is bound independently: after a successful
\* construction, load() or asyncLoad() with no failed call before it, every
\* leaf that declares the same environment variable as another leaf reads as
\* the converted value of that variable if the variable is set.
SharedVariableBindsEveryLeaf ==
  (JustSucceeded /\ clean) =>
    \A p \in Leaves : (SharesEnv(p) /\ EnvSet(p)) => GetResult(p) = ConvertedEnv(p)

====
